---- MODULE Spec2Model ----
(***************************************************************************)
(* Task supervisor of gford1000-go/startup (startup.go).                   *)
(*                                                                         *)
(* One call of StartFunctions / StartNamedFunctions is modelled together   *)
(* with the goroutines it starts: the cascade watcher                      *)
(* (startAwaitShutdown), the interrupt bridge (startInterruptHandling),    *)
(* one worker per declaration (fWrapper) and the join watcher of           *)
(* awaitExit.  Time is abstracted: a pause() is a point where the other    *)
(* goroutines may run, and a timer may fire at any moment after it has     *)
(* been armed.                                                              *)
(*                                                                         *)
(* The discovery registry (discovery.go) is modelled on its own, with a    *)
(* few goroutines calling Register and Find concurrently (RegSpec).        *)
(*                                                                         *)
(* The identity protocol (identity.go) is modelled with one serving        *)
(* identity, its accept loop and handling loops, and clients that Connect  *)
(* and Send (ProtoSpec).  Channels are the conduits of the three pools;    *)
(* time is a discrete clock on which every pending time.After counts down. *)
(***************************************************************************)
EXTENDS Integers, Sequences, FiniteSets, TLC

\* ------------------------------------------------------------------ bounds
MaxFuncs == 2          \* longest batch of declarations passed to a launch
MaxInterrupts == 1     \* interrupts the environment delivers during a run
MaxProcs == 2          \* goroutines calling the registry concurrently
MaxClients == 1        \* identities that Connect and Send
MaxHandlers == 1       \* handling loops alive at the same time
MaxSends == 2          \* Send calls each client makes

\* ------------------------------------------------------- program constants
DefaultTimeout == 30   \* defaultOptions.Timeout, in seconds

ErrNameAlreadyExists == "ErrNameAlreadyExists"
ErrFuncMustNotBeNil == "ErrFuncMustNotBeNil"
ErrInvalidTimeout == "ErrInvalidTimeout"
ErrMissingStartableFunctions == "ErrMissingStartableFunctions"
ErrNilID == "ErrNilID"
ErrInvalidID == "ErrInvalidID"
ErrIDNotFound == "ErrIDNotFound"
ErrIDAlreadyRegistered == "ErrIDAlreadyRegistered"
ErrContextCompleted == "ErrContextCompleted"
ErrConnectTimeout == "ErrConnectTimeout"
ErrNoDiscoveryService == "ErrNoDiscoveryService"

\* ------------------------------------------------------------ input domains
\* Explicit names a caller may give; "" is the absent name.
Names == {"", "a"}

\* A task body is absent ("nil"), or an opaque callable.  A "run" body may
\* return or panic at any moment of its own choosing (or never); a "wait"
\* body blocks on its context's Done and returns once it is cancelled.
Bodies == {"nil", "run", "wait"}

\* WithTimeout setters a caller may pass, as the list of their arguments
\* (the empty list: option not given).
TimeoutArgs == {<<>>, <<0>>, <<5>>}

\* Logging configurations: no WithLogging, WithLogging(l, false),
\* WithLogging(l, true).
LoggingArgs == {"none", "all", "panicsOnly"}

\* Request handlers a declaration may carry: none, or the echo handler.
DeclHandlers == {"nil", "echo"}

\* FunctionDeclaration without Args, which only the task body looks at.
FunctionDeclaration ==
    [Name : Names, Func : Bodies, RegisterWithDiscoveryService : BOOLEAN,
     Handler : DeclHandlers]

\* The declarations that ask for no identity: flag unset and no handler.
PlainDeclarations ==
    {d \in FunctionDeclaration :
        ~d.RegisterWithDiscoveryService /\ d.Handler = "nil"}

\* StartFunctions wraps each body into FunctionDeclaration{Func: fn}.
Wrapped(b) ==
    [Name |-> "", Func |-> b, RegisterWithDiscoveryService |-> FALSE,
     Handler |-> "nil"]

SeqsUpTo(S, n) == UNION {[1..k -> S] : k \in 0..n}

VARIABLES
    entry,          \* entry point used by the caller
    funcs,          \* the batch handed to the entry point
    opts,           \* the option setters handed to the entry point
    ctxDone,        \* the externally supplied context is Done
    mainPc,         \* position of the calling goroutine
    result,         \* value returned by the entry point ("pending" before)
    myFuncs,        \* declarations after naming
    o,              \* funcMgr.o
    hasDS,          \* funcMgr.funcOps.DiscoveryService != nil
    lck,            \* holder of funcMgr.lck
    cfs,            \* funcMgr.cs / funcMgr.cfs (parallel slices), by task index
    chs,            \* funcMgr.chs, by task index
    csDone,         \* per task: its own context is Done
    chBuf,          \* per task: signals held by its completion channel
    exitDone,       \* funcMgr.exitCtx is Done
    shutdownDone,   \* funcMgr.shutdownCtx is Done
    next,           \* index of the declaration addFn is called for next
    watcherPc,      \* cascade watcher goroutine
    cascades,       \* times the watcher enumerated the cancel operations
    bridgePc,       \* interrupt bridge goroutine
    notifying,      \* signal.Notify is in force for signalChan
    signalChan,     \* signals buffered in signalChan (capacity 1)
    interrupts,     \* interrupts delivered by the environment
    handled,        \* interrupts consumed by the bridge
    wpc,            \* per task: position of its worker goroutine
    invoked,        \* per task: times the task body was invoked
    outcome,        \* per task: how the task body ended
    joinPc,         \* join watcher goroutine of awaitExit
    jidx,           \* index into chs the join watcher waits on
    chClosed,       \* awaitExit's notification channel was closed
    exitVia,        \* branch of awaitExit's final select that was taken
    crash,          \* the unrecovered panic the process died of, or "none"
    log,            \* lines written to the logging sink
    listening,      \* tasks for whose identity an accept loop was started
    \* ---- discovery registry
    dsm,            \* ds.m: identity registered under each name
    dsLck,          \* holder of ds.lck (0: free)
    rpc,            \* per registry caller: position inside Register / Find
    rid,            \* per caller: identity passed to its current Register
    rname,          \* per caller: name passed to its current Find
    rres,           \* per caller: what its last call returned, until the next
    okCount,        \* per name: Register calls that returned nil
    \* ---- identity protocol: the serving identity
    srvH,           \* identity.h: what the handler does
    srvIdle,        \* identity.idleTimeout
    srvDone,        \* the context of Accept and handle is done
    accPc,          \* accept loop: "off", "select", "reply", "done"
    accMsg,         \* accept loop: the reply it is about to write
    hPc,            \* per handling loop: "none", "select", "handling"
    hCh,            \* per handling loop: its request conduit
    hReq,           \* per handling loop: the envelope being processed
    hTimer,         \* per handling loop: time left on time.After(idleTimeout)
    hExit,          \* per handling loop: why it last terminated
    hQuiet,         \* per handling loop: time since it started or last received
    \* ---- identity protocol: the clients
    cDone,          \* per client: the context passed to Connect / Send is done
    cPc,            \* per client: position inside Connect / Send
    cCh,            \* per client: the reply conduit it borrowed
    cConn,          \* per client: request conduit of the Connection it holds
    cReq,           \* per client: the envelope of its current or last Send
    cTimer,         \* per client: time left on time.After(o.Timeout)
    cLate,          \* per client: time passed while its Send was blocked
    cSent,          \* per client: Send calls made
    cOut,           \* per client: what its last call returned, until the next
    \* ---- identity protocol: the pools and their conduits
    connPool, reqPool, resPool,   \* per conduit: times it is in the pool
    connMade, reqMade, resMade,   \* conduits created by each pool's New
    connBuf, reqBuf, resBuf       \* per conduit: its buffer (capacity 1)

supVars == <<entry, funcs, opts, ctxDone, mainPc, result, myFuncs, o, hasDS, lck,
          cfs, chs, csDone, chBuf, exitDone, shutdownDone, next, watcherPc,
          cascades, bridgePc, notifying, signalChan, interrupts, handled, wpc,
          invoked, outcome, joinPc, jidx, chClosed, exitVia, crash, log,
          listening>>

regCallVars == <<dsLck, rpc, rid, rname, rres, okCount>>

regVars == <<dsm, regCallVars>>

srvVars == <<srvH, srvIdle, srvDone, accPc, accMsg, hPc, hCh, hReq, hTimer,
             hExit, hQuiet>>

cliVars == <<cDone, cPc, cCh, cConn, cReq, cTimer, cLate, cSent, cOut>>

poolVars == <<connPool, reqPool, resPool, connMade, reqMade, resMade,
              connBuf, reqBuf, resBuf>>

protoVars == <<srvVars, cliVars, poolVars>>

\* The variables of the messaging layer, untouched by the supervisor.
msgVars == <<regVars, protoVars>>

vars == <<supVars, msgVars>>

Tasks == 1..Len(funcs)

\* ------------------------------------------------------------------ helpers

\* A name produced by createNameIfMissing for the i-th declaration.  The
\* source draws 16 random bytes; the model takes the names to be fresh.
GenName(i) == "g" \o ToString(i)

createNameIfMissing(name, i) == IF name = "" THEN GenName(i) ELSE name

\* Naming loop of StartNamedFunctions.
NameAll(fs) ==
    [i \in 1..Len(fs) |->
        [Name |-> createNameIfMissing(fs[i].Name, i), Func |-> fs[i].Func,
         RegisterWithDiscoveryService |-> fs[i].RegisterWithDiscoveryService,
         Handler |-> fs[i].Handler]]

\* validate with its two checks in the opposite order.
validateNilFirst(f, m) ==
    IF f.Func = "nil" THEN ErrFuncMustNotBeNil
    ELSE IF f.Name \in m THEN ErrNameAlreadyExists
    ELSE "nil"

\* validate without the check of the task body.
validateNoNilCheck(f, m) ==
    IF f.Name \in m THEN ErrNameAlreadyExists ELSE "nil"

\* FunctionDeclaration.validate: error, or "nil"; m is the set of names seen.
validate(f, m) ==
    IF f.Name \in m THEN ErrNameAlreadyExists
    ELSE IF f.Func = "nil" THEN ErrFuncMustNotBeNil
    ELSE "nil"

\* Validation loop of StartNamedFunctions: the first error, or "nil".
RECURSIVE ValidateFrom(_, _, _)
ValidateFrom(fs, i, m) ==
    IF i > Len(fs) THEN "nil"
    ELSE IF validate(fs[i], m) # "nil" THEN validate(fs[i], m)
    ELSE ValidateFrom(fs, i + 1, m \cup {fs[i].Name})

ValidateAll(fs) == ValidateFrom(fs, 1, {})

\* WithTimeout applied to the options.
WithTimeout(d) == IF d > 0 THEN "nil" ELSE ErrInvalidTimeout

\* The option loop of StartNamedFunctions: error, or "nil".
ApplyOptsErr(os) ==
    IF os.timeout # <<>> /\ WithTimeout(os.timeout[1]) # "nil"
    THEN WithTimeout(os.timeout[1]) ELSE "nil"

\* The Options value after the option loop.
ApplyOpts(os, e) ==
    [Logger |-> os.logging # "none",
     ReportPanicsOnly |-> os.logging = "panicsOnly",
     Timeout |-> IF os.timeout = <<>> THEN DefaultTimeout ELSE os.timeout[1],
     noDiscoveryService |-> e = "StartFunctions"]

\* funcMgr.logger: lifecycle lines, suppressed without a sink or in
\* panics-only mode.
logger(opt, l, line) ==
    IF opt.Logger /\ ~opt.ReportPanicsOnly THEN l \cup {line} ELSE l

\* funcMgr.logPanic: written whenever a sink is present.
logPanic(opt, l, line) ==
    IF opt.Logger THEN l \cup {line} ELSE l

\* ----------------------------------------------------------------- initial
DefaultCall == [logging |-> "none", timeout |-> <<>>]

\* The calls a run may start from: StartNamedFunctions with any batch of
\* declarations that ask for no identity and no option, or StartFunctions
\* with any batch of bodies and either a logging or a timeout option.
Calls ==
    {[entry |-> "StartNamedFunctions", funcs |-> fs, opts |-> DefaultCall] :
        fs \in SeqsUpTo(PlainDeclarations, MaxFuncs)}
    \cup
    {[entry |-> "StartFunctions", funcs |-> fs, opts |-> os] :
        fs \in SeqsUpTo({Wrapped(b) : b \in Bodies}, MaxFuncs),
        os \in {[logging |-> l, timeout |-> <<>>] : l \in LoggingArgs}
               \cup {[logging |-> "none", timeout |-> t] : t \in TimeoutArgs}}

\* The calls of the runs checked for progress.
LiveCalls ==
    {[entry |-> "StartFunctions", funcs |-> fs, opts |-> DefaultCall] :
        fs \in SeqsUpTo({Wrapped(b) : b \in Bodies}, MaxFuncs)}

\* The state in which the caller is about to make the call c; its context
\* may already be Done.
InitFor(c) ==
    /\ entry = c.entry
    /\ funcs = c.funcs
    /\ opts = c.opts
    /\ ctxDone \in BOOLEAN
    /\ mainPc = "call"
    /\ result = "pending"
    /\ myFuncs = <<>>
    /\ o = [Logger |-> FALSE, ReportPanicsOnly |-> FALSE,
            Timeout |-> DefaultTimeout, noDiscoveryService |-> FALSE]
    /\ hasDS = FALSE
    /\ lck = "free"
    /\ cfs = <<>>
    /\ chs = <<>>
    /\ csDone = [i \in 1..Len(c.funcs) |-> FALSE]
    /\ chBuf = [i \in 1..Len(c.funcs) |-> 0]
    /\ exitDone = FALSE
    /\ shutdownDone = FALSE
    /\ next = 1
    /\ watcherPc = "none"
    /\ cascades = 0
    /\ bridgePc = "none"
    /\ notifying = FALSE
    /\ signalChan = 0
    /\ interrupts = 0
    /\ handled = 0
    /\ wpc = [i \in 1..Len(c.funcs) |-> "none"]
    /\ invoked = [i \in 1..Len(c.funcs) |-> 0]
    /\ outcome = [i \in 1..Len(c.funcs) |-> "none"]
    /\ joinPc = "none"
    /\ jidx = 1
    /\ chClosed = FALSE
    /\ exitVia = "none"
    /\ crash = "none"
    /\ log = {}
    /\ listening = {}

\* ------------------------------------------------------ discovery registry
Procs == 1..MaxProcs

\* The absent identity (a nil Identity).
NilID == [id |-> "", ch |-> 0]

\* The identities a caller p may create: any name, with a channel of its own.
IdentitiesOf(p) == {[id |-> n, ch |-> p] : n \in Names}

NoResult == [op |-> "none", err |-> "nil", loc |-> 0]

\* NewDiscoveryService: an empty mapping; no call in progress.
RegIdle ==
    /\ dsm = [n \in {} |-> NilID]
    /\ dsLck = 0
    /\ rpc = [p \in Procs |-> "idle"]
    /\ rid = [p \in Procs |-> NilID]
    /\ rname = [p \in Procs |-> ""]
    /\ rres = [p \in Procs |-> NoResult]
    /\ okCount = [n \in Names |-> 0]

\* No launch in progress: the supervisor's variables at rest.
SupIdle ==
    /\ InitFor([entry |-> "StartNamedFunctions", funcs |-> <<>>,
                opts |-> DefaultCall])
    /\ ctxDone = FALSE

\* ------------------------------------------------------ identity protocol
Clients == 1..MaxClients
Handlers == 1..MaxHandlers
\* The conduits of the three pools: never more than their borrowers.
ConnChans == 1..MaxClients
ReqChans == 1..MaxHandlers
ResChans == 1..MaxClients

\* The serving identity: CreateAndRegisterID(SrvName, d, h, ds); its inbound
\* address is the unbuffered channel identity.ch.
SrvName == "a"
SrvID == [id |-> SrvName, ch |-> 1]

\* What a handler does with (req, res): "echo" copies type and payload and
\* sets Success; "panic" fills res and then panics; "nil" is no handler;
\* "untouched" returns without writing res, whose Status stays UnknownStatus;
\* "busy" reports RequestTimeout for a request it gave up on.
HandlerKinds == {"echo", "panic", "nil", "untouched", "busy"}

\* Durations, in clock ticks, given to CreateAndRegisterID,
\* WithConnectTimeout and WithSendTimeout.
IdleTimeouts == {2}
ConnectTimeouts == {1}
SendTimeouts == {1}

\* The requests a client sends.
Reqs == {[Type |-> "text", Data |-> "Hello"], [Type |-> "num", Data |-> "42"]}

NoTag == <<0, 0>>
NoEnv == [Type |-> "", Data |-> "", Chan |-> 0, tag |-> NoTag]
\* A nil *Res.
NilRes == [Status |-> "nil", Type |-> "", Data |-> "", Error |-> "", tag |-> NoTag]
\* What a call returned, with the target and registry option of a Connect.
NoOut == [op |-> "none", id |-> "", ds |-> FALSE, err |-> "nil",
          res |-> NilRes, conn |-> 0, late |-> FALSE]
NoAccMsg == [Chan |-> 0, ReqChan |-> 0]

EmptyPool(S) == [k \in S |-> 0]
EmptyBufs(S) == [k \in S |-> <<>>]

\* No identity created yet, no client call in progress, empty pools.
ProtoIdleWith(h, d) ==
    /\ srvH = h
    /\ srvIdle = d
    /\ srvDone = FALSE
    /\ accPc = "off"
    /\ accMsg = NoAccMsg
    /\ hPc = [h2 \in Handlers |-> "none"]
    /\ hCh = [h2 \in Handlers |-> 0]
    /\ hReq = [h2 \in Handlers |-> NoEnv]
    /\ hTimer = [h2 \in Handlers |-> 0]
    /\ hExit = [h2 \in Handlers |-> "none"]
    /\ hQuiet = [h2 \in Handlers |-> 0]
    /\ cDone = [c \in Clients |-> FALSE]
    /\ cPc = [c \in Clients |-> "idle"]
    /\ cCh = [c \in Clients |-> 0]
    /\ cConn = [c \in Clients |-> 0]
    /\ cReq = [c \in Clients |-> NoEnv]
    /\ cTimer = [c \in Clients |-> 0]
    /\ cLate = [c \in Clients |-> FALSE]
    /\ cSent = [c \in Clients |-> 0]
    /\ cOut = [c \in Clients |-> NoOut]
    /\ connPool = EmptyPool(ConnChans)
    /\ reqPool = EmptyPool(ReqChans)
    /\ resPool = EmptyPool(ResChans)
    /\ connMade = 0 /\ reqMade = 0 /\ resMade = 0
    /\ connBuf = EmptyBufs(ConnChans)
    /\ reqBuf = EmptyBufs(ReqChans)
    /\ resBuf = EmptyBufs(ResChans)

ProtoIdle == ProtoIdleWith("echo", 2)

Init == \E c \in Calls : InitFor(c) /\ RegIdle /\ ProtoIdle

LiveInit == \E c \in LiveCalls : InitFor(c) /\ RegIdle /\ ProtoIdle

\* ------------------------------------------------- StartNamedFunctions body

\* LaunchErr without the check of the batch's length.
LaunchErrNoEmptyCheck(fs, os) ==
    IF ValidateAll(NameAll(fs)) # "nil" THEN ValidateAll(NameAll(fs))
    ELSE ApplyOptsErr(os)

\* The error StartNamedFunctions returns before it starts anything, or "nil".
LaunchErr(fs, os) ==
    IF Len(fs) = 0 THEN ErrMissingStartableFunctions
    ELSE IF ValidateAll(NameAll(fs)) # "nil" THEN ValidateAll(NameAll(fs))
    ELSE ApplyOptsErr(os)

\* StartFunctions / StartNamedFunctions up to the first addFn: checks, naming,
\* validation, options, construction of funcMgr, registry and the two
\* contexts, startAwaitShutdown and startInterruptHandling.
StartNamedFunctions ==
    /\ crash = "none"
    /\ mainPc = "call"
    /\ IF LaunchErr(funcs, opts) # "nil"
       THEN /\ mainPc' = "returned"
            /\ result' = LaunchErr(funcs, opts)
            /\ UNCHANGED <<myFuncs, o, hasDS, shutdownDone, watcherPc,
                           bridgePc, notifying>>
       ELSE /\ mainPc' = "addFn"
            /\ myFuncs' = NameAll(funcs)
            /\ o' = ApplyOpts(opts, entry)
            /\ hasDS' = ~ApplyOpts(opts, entry).noDiscoveryService
            \* shutdownCtx is derived from ctx
            /\ shutdownDone' = ctxDone
            /\ watcherPc' = "await"
            /\ bridgePc' = "select"
            /\ notifying' = TRUE
            /\ UNCHANGED result
    /\ UNCHANGED <<entry, funcs, opts, ctxDone, lck, cfs, chs, csDone, chBuf,
                   exitDone, next, cascades, signalChan, interrupts, handled,
                   wpc, invoked, outcome, joinPc, jidx, chClosed, exitVia,
                   crash, log>>
    /\ UNCHANGED <<listening, msgVars>>

\* The caller's context completes; shutdownCtx, its child, completes with it.
CtxCancel ==
    /\ crash = "none"
    /\ ~ctxDone
    /\ ctxDone' = TRUE
    /\ shutdownDone' = (shutdownDone \/ watcherPc # "none")
    /\ UNCHANGED <<entry, funcs, opts, mainPc, result, myFuncs, o, hasDS, lck,
                   cfs, chs, csDone, chBuf, exitDone, next, watcherPc,
                   cascades, bridgePc, notifying, signalChan, interrupts,
                   handled, wpc, invoked, outcome, joinPc, jidx, chClosed,
                   exitVia, crash, log>>
    /\ UNCHANGED <<listening, msgVars>>

\* ------------------------------------------------------------------- addFn

\* addFn with the test of shutdownCtx.Done() inverted.
addFnSpawnsInverted == shutdownDone

\* addFn takes the lock and tests shutdownCtx.Done(): when it is done the
\* declaration is passed over and the lock released.
addFnSpawns == ~shutdownDone

addFn ==
    /\ crash = "none"
    /\ mainPc = "addFn"
    /\ next <= Len(myFuncs)
    /\ lck = "free"
    /\ IF addFnSpawns
       THEN /\ lck' = "main"
            /\ mainPc' = "addFnAppend"
            /\ UNCHANGED next
       ELSE /\ next' = next + 1
            /\ UNCHANGED <<lck, mainPc>>
    /\ UNCHANGED <<entry, funcs, opts, ctxDone, result, myFuncs, o, hasDS,
                   cfs, chs, csDone, chBuf, exitDone, shutdownDone, watcherPc,
                   cascades, bridgePc, notifying, signalChan, interrupts,
                   handled, wpc, invoked, outcome, joinPc, jidx, chClosed,
                   exitVia, crash, log>>
    /\ UNCHANGED <<listening, msgVars>>

\* The default branch, still under the lock: the task's context, cancel
\* operation and completion channel are appended and fWrapper starts the
\* worker; the lock stays held over fWrapper's pause.
addFnAppend ==
    /\ crash = "none"
    /\ mainPc = "addFnAppend"
    /\ cfs' = Append(cfs, next)
    /\ chs' = Append(chs, next)
    /\ wpc' = [wpc EXCEPT ![next] = "start"]
    /\ mainPc' = "addFnPause"
    /\ UNCHANGED <<entry, funcs, opts, ctxDone, result, myFuncs, o, hasDS,
                   lck, csDone, chBuf, exitDone, shutdownDone, next,
                   watcherPc, cascades, bridgePc, notifying, signalChan,
                   interrupts, handled, invoked, outcome, joinPc, jidx,
                   chClosed, exitVia, crash, log>>
    /\ UNCHANGED <<listening, msgVars>>

\* fWrapper's pause is over: addFn returns and releases the lock.
addFnReturn ==
    /\ crash = "none"
    /\ mainPc = "addFnPause"
    /\ lck' = "free"
    /\ next' = next + 1
    /\ mainPc' = "addFn"
    /\ UNCHANGED <<entry, funcs, opts, ctxDone, result, myFuncs, o, hasDS,
                   cfs, chs, csDone, chBuf, exitDone, shutdownDone, watcherPc,
                   cascades, bridgePc, notifying, signalChan, interrupts,
                   handled, wpc, invoked, outcome, joinPc, jidx, chClosed,
                   exitVia, crash, log>>
    /\ UNCHANGED <<listening, msgVars>>

\* ----------------------------------------------------------------- workers

\* The critical section of Register (discovery.go), which the worker and
\* the task bodies run as one step.
\* if _, ok := d.m[id.ID()]; ok { return ErrIDAlreadyRegistered }
RegisterNoDupCheck(mm, id) == "nil"

RegisterDupCheck(mm, id) ==
    IF id.id \in DOMAIN mm THEN ErrIDAlreadyRegistered ELSE "nil"

\* d.m[id.ID()] = id
Insert(mm, id) ==
    [n \in DOMAIN mm \cup {id.id} |-> IF n = id.id THEN id ELSE mm[n]]

\* inner's test of startup.go 351-352: the task gets an identity of its own.
AutoRegisters(i) ==
    /\ hasDS
    /\ (myFuncs[i].RegisterWithDiscoveryService \/ myFuncs[i].Handler # "nil")

\* The identity CreateAndRegisterID makes for task i.
IdentityOf(i) == [id |-> myFuncs[i].Name, ch |-> i]

\* CreateAndRegisterID as called by inner: the error, or "nil".
CreateAndRegisterID(i) ==
    IF AutoRegisters(i) THEN RegisterDupCheck(dsm, IdentityOf(i)) ELSE "nil"

\* The worker goroutine of fWrapper up to the call of the task body: the
\* identity is registered when the declaration asks for one, the accept loop
\* is started when it has a handler, then the body is invoked.
fWrapperStart(i) ==
    /\ crash = "none"
    /\ wpc[i] = "start"
    /\ CreateAndRegisterID(i) = "nil"
    /\ dsm' = IF AutoRegisters(i) THEN Insert(dsm, IdentityOf(i)) ELSE dsm
    /\ listening' = IF hasDS /\ myFuncs[i].Handler # "nil"
                      THEN listening \cup {i} ELSE listening
    /\ wpc' = [wpc EXCEPT ![i] = "running"]
    /\ invoked' = [invoked EXCEPT ![i] = @ + 1]
    /\ log' = logger(o, log, <<"executing StartableFunction", i>>)
    /\ UNCHANGED <<entry, funcs, opts, ctxDone, mainPc, result, myFuncs, o,
                   hasDS, lck, cfs, chs, csDone, chBuf, exitDone,
                   shutdownDone, next, watcherPc, cascades, bridgePc,
                   notifying, signalChan, interrupts, handled, outcome,
                   joinPc, jidx, chClosed, exitVia, crash>>
    /\ UNCHANGED <<regCallVars, protoVars>>

\* The failed registration going on to the task body all the same.
fWrapperRegisterIgnored(i) ==
    /\ crash = "none"
    /\ wpc[i] = "start"
    /\ CreateAndRegisterID(i) # "nil"
    /\ wpc' = [wpc EXCEPT ![i] = "running"]
    /\ invoked' = [invoked EXCEPT ![i] = @ + 1]
    /\ outcome' = [outcome EXCEPT ![i] = "unregistered"]
    /\ log' = logger(o, log, <<"executing StartableFunction", i>>)
    /\ UNCHANGED <<entry, funcs, opts, ctxDone, mainPc, result, myFuncs, o,
                   hasDS, lck, cfs, chs, csDone, chBuf, exitDone,
                   shutdownDone, next, watcherPc, cascades, bridgePc,
                   notifying, signalChan, interrupts, handled, joinPc, jidx,
                   chClosed, exitVia, crash>>
    /\ UNCHANGED <<listening, msgVars>>

\* CreateAndRegisterID fails: inner returns the error at once, and its
\* deferred calls put the completion signal and cancel the task's context.
fWrapperRegisterFails(i) ==
    /\ crash = "none"
    /\ wpc[i] = "start"
    /\ CreateAndRegisterID(i) # "nil"
    /\ outcome' = [outcome EXCEPT ![i] = "unregistered"]
    /\ wpc' = [wpc EXCEPT ![i] = "exited"]
    /\ chBuf' = [chBuf EXCEPT ![i] = @ + 1]
    /\ csDone' = [csDone EXCEPT ![i] = TRUE]
    /\ UNCHANGED <<entry, funcs, opts, ctxDone, mainPc, result, myFuncs, o,
                   hasDS, lck, cfs, chs, exitDone, shutdownDone, next,
                   watcherPc, cascades, bridgePc, notifying, signalChan,
                   interrupts, handled, invoked, joinPc, jidx, chClosed,
                   exitVia, crash, log>>
    /\ UNCHANGED <<listening, msgVars>>

\* A running task body registers an identity under name n by itself, with
\* the registry handle of its FunctionOptions.
BodyRegisters(i, n) ==
    /\ crash = "none"
    /\ wpc[i] = "running"
    /\ hasDS
    /\ RegisterDupCheck(dsm, [id |-> n, ch |-> i]) = "nil"
    /\ dsm' = Insert(dsm, [id |-> n, ch |-> i])
    /\ UNCHANGED <<supVars, regCallVars, protoVars>>

\* inner without its deferred recover.
recoveredNothing(how) == "nil"

\* What inner's deferred recover makes of the way the body ended: "err" when
\* a panic was caught, "nil" after a plain return.
recovered(how) == IF how = "panicked" THEN "err" ELSE "nil"

\* The task body ends (how: "returned" or "panicked") and inner's deferred
\* calls run: the exit line, recover, the completion signal, cancel of the
\* task's own context.  An unrecovered panic would end the process.
innerExit(i, how) ==
    /\ crash = "none"
    /\ wpc[i] = "running"
    /\ outcome' = [outcome EXCEPT ![i] = how]
    /\ log' = logger(o, log, <<"exited StartableFunction", i>>)
    /\ IF how = "panicked" /\ recovered(how) = "nil"
       THEN /\ crash' = "panic in task body"
            /\ UNCHANGED <<wpc, chBuf, csDone>>
       ELSE /\ wpc' = [wpc EXCEPT ![i] = "exited"]
            /\ chBuf' = [chBuf EXCEPT ![i] = @ + 1]
            /\ csDone' = [csDone EXCEPT ![i] = TRUE]
            /\ UNCHANGED crash
    /\ UNCHANGED <<entry, funcs, opts, ctxDone, mainPc, result, myFuncs, o,
                   hasDS, lck, cfs, chs, exitDone, shutdownDone, next,
                   watcherPc, cascades, bridgePc, notifying, signalChan,
                   interrupts, handled, invoked, joinPc, jidx, chClosed,
                   exitVia>>
    /\ UNCHANGED <<listening, msgVars>>

\* A "run" body returns of its own accord.
BodyReturns(i) ==
    /\ wpc[i] = "running"
    /\ myFuncs[i].Func = "run"
    /\ innerExit(i, "returned")

\* A "run" body panics.
BodyPanics(i) ==
    /\ wpc[i] = "running"
    /\ myFuncs[i].Func = "run"
    /\ innerExit(i, "panicked")

\* A "wait" body observes its context's Done and returns.
BodyObservesDone(i) ==
    /\ wpc[i] = "running"
    /\ myFuncs[i].Func = "wait"
    /\ csDone[i]
    /\ innerExit(i, "returned")

\* Back in the worker goroutine: the caught panic is reported and the
\* deferred shutdown() cancels shutdownCtx.
fWrapperEnd(i) ==
    /\ crash = "none"
    /\ wpc[i] = "exited"
    /\ wpc' = [wpc EXCEPT ![i] = "done"]
    /\ log' = IF outcome[i] = "unregistered"
              THEN logPanic(o, log, <<"already exists!", i>>)
              ELSE IF recovered(outcome[i]) # "nil"
              THEN logPanic(o, log, <<"caught unhandled panic", i>>)
              ELSE log
    /\ shutdownDone' = TRUE
    /\ UNCHANGED <<entry, funcs, opts, ctxDone, mainPc, result, myFuncs, o,
                   hasDS, lck, cfs, chs, csDone, chBuf, exitDone, next,
                   watcherPc, cascades, bridgePc, notifying, signalChan,
                   interrupts, handled, invoked, outcome, joinPc, jidx,
                   chClosed, exitVia, crash>>
    /\ UNCHANGED <<listening, msgVars>>

\* ---------------------------------------------------------- cascade watcher

\* The cascade watcher going on without waiting for shutdownCtx.Done().
startAwaitShutdownNoWait ==
    /\ crash = "none"
    /\ watcherPc = "await"
    /\ watcherPc' = "lock"
    /\ log' = logger(o, log, <<"cancelling all contexts", 0>>)
    /\ UNCHANGED <<entry, funcs, opts, ctxDone, mainPc, result, myFuncs, o,
                   hasDS, lck, cfs, chs, csDone, chBuf, exitDone,
                   shutdownDone, next, cascades, bridgePc, notifying,
                   signalChan, interrupts, handled, wpc, invoked, outcome,
                   joinPc, jidx, chClosed, exitVia, crash>>
    /\ UNCHANGED <<listening, msgVars>>

\* The goroutine of startAwaitShutdown wakes on shutdownCtx.Done().
startAwaitShutdownWake ==
    /\ crash = "none"
    /\ watcherPc = "await"
    /\ shutdownDone
    /\ watcherPc' = "lock"
    /\ log' = logger(o, log, <<"cancelling all contexts", 0>>)
    /\ UNCHANGED <<entry, funcs, opts, ctxDone, mainPc, result, myFuncs, o,
                   hasDS, lck, cfs, chs, csDone, chBuf, exitDone,
                   shutdownDone, next, cascades, bridgePc, notifying,
                   signalChan, interrupts, handled, wpc, invoked, outcome,
                   joinPc, jidx, chClosed, exitVia, crash>>
    /\ UNCHANGED <<listening, msgVars>>

\* The cascade watcher going back to wait for shutdownCtx.Done().
startAwaitShutdownCascadeLoop ==
    /\ crash = "none"
    /\ watcherPc = "lock"
    /\ lck = "free"
    /\ csDone' = [i \in Tasks |->
                    csDone[i] \/ (\E k \in 1..Len(cfs) : cfs[k] = i)]
    /\ exitDone' = TRUE
    /\ cascades' = cascades + 1
    /\ watcherPc' = "await"
    /\ UNCHANGED <<entry, funcs, opts, ctxDone, mainPc, result, myFuncs, o,
                   hasDS, lck, cfs, chs, chBuf, shutdownDone, next, bridgePc,
                   notifying, signalChan, interrupts, handled, wpc, invoked,
                   outcome, joinPc, jidx, chClosed, exitVia, crash, log>>
    /\ UNCHANGED <<listening, msgVars>>

\* The cascade watcher enumerating the cancel operations without the lock.
startAwaitShutdownCascadeNoLock ==
    /\ crash = "none"
    /\ watcherPc = "lock"
    /\ csDone' = [i \in Tasks |->
                    csDone[i] \/ (\E k \in 1..Len(cfs) : cfs[k] = i)]
    /\ exitDone' = TRUE
    /\ cascades' = cascades + 1
    /\ watcherPc' = "done"
    /\ UNCHANGED <<entry, funcs, opts, ctxDone, mainPc, result, myFuncs, o,
                   hasDS, lck, cfs, chs, chBuf, shutdownDone, next, bridgePc,
                   notifying, signalChan, interrupts, handled, wpc, invoked,
                   outcome, joinPc, jidx, chClosed, exitVia, crash, log>>
    /\ UNCHANGED <<listening, msgVars>>

\* Under the lock it invokes every registered cancel operation, then exit().
startAwaitShutdownCascade ==
    /\ crash = "none"
    /\ watcherPc = "lock"
    /\ lck = "free"
    /\ csDone' = [i \in Tasks |->
                    csDone[i] \/ (\E k \in 1..Len(cfs) : cfs[k] = i)]
    /\ exitDone' = TRUE
    /\ cascades' = cascades + 1
    /\ watcherPc' = "done"
    /\ UNCHANGED <<entry, funcs, opts, ctxDone, mainPc, result, myFuncs, o,
                   hasDS, lck, cfs, chs, chBuf, shutdownDone, next, bridgePc,
                   notifying, signalChan, interrupts, handled, wpc, invoked,
                   outcome, joinPc, jidx, chClosed, exitVia, crash, log>>
    /\ UNCHANGED <<listening, msgVars>>

\* --------------------------------------------------------- interrupt bridge

\* The environment delivers os.Interrupt while signal.Notify is in force;
\* signalChan has capacity one and a signal finding it full is dropped.
Interrupt ==
    /\ crash = "none"
    /\ notifying
    /\ interrupts < MaxInterrupts
    /\ interrupts' = interrupts + 1
    /\ signalChan' = 1
    /\ UNCHANGED <<entry, funcs, opts, ctxDone, mainPc, result, myFuncs, o,
                   hasDS, lck, cfs, chs, csDone, chBuf, exitDone,
                   shutdownDone, next, watcherPc, cascades, bridgePc,
                   notifying, handled, wpc, invoked, outcome, joinPc, jidx,
                   chClosed, exitVia, crash, log>>
    /\ UNCHANGED <<listening, msgVars>>

\* Position of the bridge goroutine after its select has taken a branch.
bridgeAfterSelect == "done"

\* The bridge's select takes the signal: shutdown(), then signal.Stop.
startInterruptHandlingSignal ==
    /\ crash = "none"
    /\ bridgePc = "select"
    /\ signalChan > 0
    /\ signalChan' = signalChan - 1
    /\ handled' = handled + 1
    /\ log' = logger(o, log, <<"received interrupt", 0>>)
    /\ shutdownDone' = TRUE
    /\ bridgePc' = bridgeAfterSelect
    /\ notifying' = (bridgeAfterSelect # "done")
    /\ UNCHANGED <<entry, funcs, opts, ctxDone, mainPc, result, myFuncs, o,
                   hasDS, lck, cfs, chs, csDone, chBuf, exitDone, next,
                   watcherPc, cascades, interrupts, wpc, invoked, outcome,
                   joinPc, jidx, chClosed, exitVia, crash>>
    /\ UNCHANGED <<listening, msgVars>>

\* The bridge's select takes shutdownCtx.Done(): signal.Stop only.
startInterruptHandlingDone ==
    /\ crash = "none"
    /\ bridgePc = "select"
    /\ shutdownDone
    /\ bridgePc' = "done"
    /\ notifying' = FALSE
    /\ UNCHANGED <<entry, funcs, opts, ctxDone, mainPc, result, myFuncs, o,
                   hasDS, lck, cfs, chs, csDone, chBuf, exitDone,
                   shutdownDone, next, watcherPc, cascades, signalChan,
                   interrupts, handled, wpc, invoked, outcome, joinPc, jidx,
                   chClosed, exitVia, crash, log>>
    /\ UNCHANGED <<listening, msgVars>>

\* --------------------------------------------------------------- awaitExit

\* awaitExit's first select takes exitCtx.Done(); the join watcher is started.
awaitExitOnExitCtx ==
    /\ crash = "none"
    /\ mainPc = "addFn"
    /\ next > Len(myFuncs)
    /\ exitDone
    /\ log' = logger(o, logger(o, log, <<"received Done() for exit context", 0>>),
                     <<"waiting for Done() from StartableFunction contexts", 0>>)
    /\ mainPc' = "joinWait"
    /\ joinPc' = "lock"
    /\ UNCHANGED <<entry, funcs, opts, ctxDone, result, myFuncs, o, hasDS,
                   lck, cfs, chs, csDone, chBuf, exitDone, shutdownDone, next,
                   watcherPc, cascades, bridgePc, notifying, signalChan,
                   interrupts, handled, wpc, invoked, outcome, jidx, chClosed,
                   exitVia, crash>>
    /\ UNCHANGED <<listening, msgVars>>

\* awaitExit's first select takes ctx.Done(): shutdown(), then the join
\* watcher is started.
awaitExitOnCtx ==
    /\ crash = "none"
    /\ mainPc = "addFn"
    /\ next > Len(myFuncs)
    /\ ctxDone
    /\ log' = logger(o, logger(o, log, <<"received Done() for external context", 0>>),
                     <<"waiting for Done() from StartableFunction contexts", 0>>)
    /\ shutdownDone' = TRUE
    /\ mainPc' = "joinWait"
    /\ joinPc' = "lock"
    /\ UNCHANGED <<entry, funcs, opts, ctxDone, result, myFuncs, o, hasDS,
                   lck, cfs, chs, csDone, chBuf, exitDone, next, watcherPc,
                   cascades, bridgePc, notifying, signalChan, interrupts,
                   handled, wpc, invoked, outcome, jidx, chClosed, exitVia,
                   crash>>
    /\ UNCHANGED <<listening, msgVars>>

\* The join watcher takes the lock.
joinLock ==
    /\ crash = "none"
    /\ joinPc = "lock"
    /\ lck = "free"
    /\ lck' = "join"
    /\ joinPc' = "recv"
    /\ jidx' = 1
    /\ UNCHANGED <<entry, funcs, opts, ctxDone, mainPc, result, myFuncs, o,
                   hasDS, cfs, chs, csDone, chBuf, exitDone, shutdownDone,
                   next, watcherPc, cascades, bridgePc, notifying, signalChan,
                   interrupts, handled, wpc, invoked, outcome, chClosed,
                   exitVia, crash, log>>
    /\ UNCHANGED <<listening, msgVars>>

\* The join watcher moving on without a completion signal.
joinRecvNoWait ==
    /\ crash = "none"
    /\ joinPc = "recv"
    /\ jidx <= Len(chs)
    /\ jidx' = jidx + 1
    /\ UNCHANGED <<entry, funcs, opts, ctxDone, mainPc, result, myFuncs, o,
                   hasDS, lck, cfs, chs, csDone, chBuf, exitDone,
                   shutdownDone, next, watcherPc, cascades, bridgePc,
                   notifying, signalChan, interrupts, handled, wpc, invoked,
                   outcome, joinPc, chClosed, exitVia, crash, log>>
    /\ UNCHANGED <<listening, msgVars>>

\* Holding the lock, it receives the completion signal of the next task.
joinRecv ==
    /\ crash = "none"
    /\ joinPc = "recv"
    /\ jidx <= Len(chs)
    /\ chBuf[chs[jidx]] > 0
    /\ chBuf' = [chBuf EXCEPT ![chs[jidx]] = @ - 1]
    /\ jidx' = jidx + 1
    /\ UNCHANGED <<entry, funcs, opts, ctxDone, mainPc, result, myFuncs, o,
                   hasDS, lck, cfs, chs, csDone, exitDone, shutdownDone, next,
                   watcherPc, cascades, bridgePc, notifying, signalChan,
                   interrupts, handled, wpc, invoked, outcome, joinPc,
                   chClosed, exitVia, crash, log>>
    /\ UNCHANGED <<listening, msgVars>>

\* All signals received: the deferred Unlock runs, then the deferred send.
joinUnlock ==
    /\ crash = "none"
    /\ joinPc = "recv"
    /\ jidx > Len(chs)
    /\ lck' = "free"
    /\ joinPc' = "send"
    /\ UNCHANGED <<entry, funcs, opts, ctxDone, mainPc, result, myFuncs, o,
                   hasDS, cfs, chs, csDone, chBuf, exitDone, shutdownDone,
                   next, watcherPc, cascades, bridgePc, notifying, signalChan,
                   interrupts, handled, wpc, invoked, outcome, jidx, chClosed,
                   exitVia, crash, log>>
    /\ UNCHANGED <<listening, msgVars>>

\* What awaitExit returns to StartNamedFunctions' caller after the join.
awaitExitResult(via) == "nil"

\* The final select takes the join watcher's notification; awaitExit
\* returns and its deferred close(ch) runs.
awaitExitAllDone ==
    /\ crash = "none"
    /\ mainPc = "joinWait"
    /\ joinPc = "send"
    /\ joinPc' = "done"
    /\ log' = logger(o, log, <<"all contexts are Done()", 0>>)
    /\ exitVia' = "alldone"
    /\ mainPc' = "returned"
    /\ result' = awaitExitResult("alldone")
    /\ chClosed' = TRUE
    /\ UNCHANGED <<entry, funcs, opts, ctxDone, myFuncs, o, hasDS, lck, cfs,
                   chs, csDone, chBuf, exitDone, shutdownDone, next,
                   watcherPc, cascades, bridgePc, notifying, signalChan,
                   interrupts, handled, wpc, invoked, outcome, jidx, crash>>
    /\ UNCHANGED <<listening, msgVars>>

\* The final select takes time.After(Timeout); awaitExit returns and its
\* deferred close(ch) runs.
awaitExitTimeout ==
    /\ crash = "none"
    /\ mainPc = "joinWait"
    /\ log' = logger(o, log, <<"timed out waiting for Done() from contexts", 0>>)
    /\ exitVia' = "timeout"
    /\ mainPc' = "returned"
    /\ result' = awaitExitResult("timeout")
    /\ chClosed' = TRUE
    /\ UNCHANGED <<entry, funcs, opts, ctxDone, myFuncs, o, hasDS, lck, cfs,
                   chs, csDone, chBuf, exitDone, shutdownDone, next,
                   watcherPc, cascades, bridgePc, notifying, signalChan,
                   interrupts, handled, wpc, invoked, outcome, joinPc, jidx,
                   crash>>
    /\ UNCHANGED <<listening, msgVars>>

\* The join watcher's deferred send meets the closed channel: the runtime
\* panics in a goroutine without recover and the process dies.
joinSendOnClosed ==
    /\ crash = "none"
    /\ joinPc = "send"
    /\ chClosed
    /\ joinPc' = "panicked"
    /\ crash' = "send on closed channel"
    /\ UNCHANGED <<entry, funcs, opts, ctxDone, mainPc, result, myFuncs, o,
                   hasDS, lck, cfs, chs, csDone, chBuf, exitDone,
                   shutdownDone, next, watcherPc, cascades, bridgePc,
                   notifying, signalChan, interrupts, handled, wpc, invoked,
                   outcome, jidx, chClosed, exitVia, log>>
    /\ UNCHANGED <<listening, msgVars>>

\* ----------------------------------------------------------- specification
Next ==
    \/ StartNamedFunctions
    \/ CtxCancel
    \/ addFn
    \/ addFnAppend
    \/ addFnReturn
    \/ \E i \in Tasks : fWrapperStart(i)
    \/ \E i \in Tasks : BodyReturns(i)
    \/ \E i \in Tasks : BodyPanics(i)
    \/ \E i \in Tasks : BodyObservesDone(i)
    \/ \E i \in Tasks : fWrapperEnd(i)
    \/ startAwaitShutdownWake
    \/ startAwaitShutdownCascade
    \/ Interrupt
    \/ startInterruptHandlingSignal
    \/ startInterruptHandlingDone
    \/ awaitExitOnExitCtx
    \/ awaitExitOnCtx
    \/ joinLock
    \/ joinRecv
    \/ joinUnlock
    \/ awaitExitAllDone
    \/ awaitExitTimeout
    \/ joinSendOnClosed

Spec == Init /\ [][Next]_vars

\* Every goroutine of the supervisor keeps running and every armed timer
\* fires; a "wait" body reacts to its context.  The caller's cancel, the
\* interrupts and the moment a "run" body ends are not forced.  (These
\* actions change the supervisor's variables only.)
Fairness ==
    /\ WF_supVars(StartNamedFunctions)
    /\ WF_supVars(addFn)
    /\ WF_supVars(addFnAppend)
    /\ WF_supVars(addFnReturn)
    /\ \A i \in 1..MaxFuncs : WF_supVars(i \in Tasks /\ fWrapperStart(i))
    /\ \A i \in 1..MaxFuncs : WF_supVars(i \in Tasks /\ BodyObservesDone(i))
    /\ \A i \in 1..MaxFuncs : WF_supVars(i \in Tasks /\ fWrapperEnd(i))
    /\ WF_supVars(startAwaitShutdownWake)
    /\ WF_supVars(startAwaitShutdownCascade)
    /\ WF_supVars(startInterruptHandlingSignal \/ startInterruptHandlingDone)
    /\ WF_supVars(awaitExitOnExitCtx \/ awaitExitOnCtx)
    /\ WF_supVars(joinLock)
    /\ WF_supVars(joinRecv)
    /\ WF_supVars(joinUnlock)
    /\ WF_supVars(awaitExitAllDone \/ awaitExitTimeout)
    /\ WF_supVars(joinSendOnClosed)

LiveSpec == LiveInit /\ [][Next]_vars /\ Fairness

\* ----------------------------------------------- tasks with identities
\* Declarations of bodies with generated names: asking for no identity,
\* for an identity without accept loop, or carrying a handler.
WorkerDeclarations ==
    {d \in FunctionDeclaration :
        /\ d.Name = ""
        /\ d.Func # "nil"
        /\ ~(d.RegisterWithDiscoveryService /\ d.Handler # "nil")}

\* The launches in which declarations ask for identities: any batch of
\* such declarations, without a logging sink or with one that takes every
\* line.
WorkerCalls ==
    {[entry |-> "StartNamedFunctions", funcs |-> fs,
      opts |-> [logging |-> l, timeout |-> <<>>]] :
        fs \in SeqsUpTo(WorkerDeclarations, MaxFuncs),
        l \in {"none", "all"}}

WorkerInit == \E c \in WorkerCalls : InitFor(c) /\ RegIdle /\ ProtoIdle

\* The supervisor with the registration outcomes of its workers and with
\* task bodies that register names by themselves.
WorkerNext ==
    \/ Next
    \/ \E i \in Tasks : fWrapperRegisterFails(i)
    \/ \E i \in Tasks : \E j \in Tasks : BodyRegisters(i, myFuncs[j].Name)

WorkerSpec == WorkerInit /\ [][WorkerNext]_vars

\* =================================================== discovery registry
\* Register and Find of discovery.go, called concurrently by MaxProcs
\* goroutines.  Each call is split at the mutex: the checks made before
\* Lock, the acquisition, and the critical section, which ends with the
\* deferred Unlock.

Returns(p, res) ==
    /\ rpc' = [rpc EXCEPT ![p] = "idle"]
    /\ rres' = [rres EXCEPT ![p] = res]

\* d.lck.Lock() succeeds only while nobody holds the mutex.
dsLockFree == dsLck = 0

\* A goroutine calls Register(id), id absent or an identity of its own.
RegisterCall(p, id) ==
    /\ rpc[p] = "idle"
    /\ rpc' = [rpc EXCEPT ![p] = "reg_enter"]
    /\ rid' = [rid EXCEPT ![p] = id]
    /\ rname' = [rname EXCEPT ![p] = ""]
    /\ rres' = [rres EXCEPT ![p] = NoResult]
    /\ UNCHANGED <<dsm, dsLck, okCount>>
    /\ UNCHANGED <<supVars, protoVars>>

\* if id == nil { return ErrNilID }, before the mutex is touched.
RegisterNilCheck(p) ==
    /\ rpc[p] = "reg_enter"
    /\ IF rid[p] = NilID
         THEN Returns(p, [op |-> "Register", err |-> ErrNilID, loc |-> 0])
         ELSE rpc' = [rpc EXCEPT ![p] = "reg_lock"] /\ UNCHANGED rres
    /\ UNCHANGED <<dsm, dsLck, rid, rname, okCount>>
    /\ UNCHANGED <<supVars, protoVars>>

RegisterLock(p) ==
    /\ rpc[p] = "reg_lock"
    /\ dsLockFree
    /\ dsLck' = p
    /\ rpc' = [rpc EXCEPT ![p] = "reg_check"]
    /\ UNCHANGED <<dsm, rid, rname, rres, okCount>>
    /\ UNCHANGED <<supVars, protoVars>>

RegisterCheck(p) ==
    /\ rpc[p] = "reg_check"
    /\ IF RegisterDupCheck(dsm, rid[p]) # "nil"
         THEN /\ Returns(p, [op |-> "Register",
                             err |-> RegisterDupCheck(dsm, rid[p]),
                             loc |-> 0])
              /\ dsLck' = 0
         ELSE /\ rpc' = [rpc EXCEPT ![p] = "reg_insert"]
              /\ UNCHANGED <<rres, dsLck>>
    /\ UNCHANGED <<dsm, rid, rname, okCount>>
    /\ UNCHANGED <<supVars, protoVars>>

RegisterInsert(p) ==
    /\ rpc[p] = "reg_insert"
    /\ dsm' = Insert(dsm, rid[p])
    /\ okCount' = [okCount EXCEPT ![rid[p].id] = @ + 1]
    /\ Returns(p, [op |-> "Register", err |-> "nil", loc |-> 0])
    /\ dsLck' = 0
    /\ UNCHANGED <<rid, rname>>
    /\ UNCHANGED <<supVars, protoVars>>

\* A goroutine calls Find(name).
FindCall(p, n) ==
    /\ rpc[p] = "idle"
    /\ rpc' = [rpc EXCEPT ![p] = "find_enter"]
    /\ rname' = [rname EXCEPT ![p] = n]
    /\ rid' = [rid EXCEPT ![p] = NilID]
    /\ rres' = [rres EXCEPT ![p] = NoResult]
    /\ UNCHANGED <<dsm, dsLck, okCount>>
    /\ UNCHANGED <<supVars, protoVars>>

\* if len(id) == 0 { return nil, ErrInvalidID }, before the mutex.
FindAnyName(n) == "nil"

FindNameCheck(n) == IF n = "" THEN ErrInvalidID ELSE "nil"

FindEmptyCheck(p) ==
    /\ rpc[p] = "find_enter"
    /\ IF FindNameCheck(rname[p]) # "nil"
         THEN Returns(p, [op |-> "Find", err |-> FindNameCheck(rname[p]),
                          loc |-> 0])
         ELSE rpc' = [rpc EXCEPT ![p] = "find_lock"] /\ UNCHANGED rres
    /\ UNCHANGED <<dsm, dsLck, rid, rname, okCount>>
    /\ UNCHANGED <<supVars, protoVars>>

FindLock(p) ==
    /\ rpc[p] = "find_lock"
    /\ dsLockFree
    /\ dsLck' = p
    /\ rpc' = [rpc EXCEPT ![p] = "find_read"]
    /\ UNCHANGED <<dsm, rid, rname, rres, okCount>>
    /\ UNCHANGED <<supVars, protoVars>>

\* i, ok := d.m[id]; !ok: ErrIDNotFound; otherwise i.Loc(), nil
Lookup(mm, n) ==
    IF n \in DOMAIN mm
      THEN [op |-> "Find", err |-> "nil", loc |-> mm[n].ch]
      ELSE [op |-> "Find", err |-> ErrIDNotFound, loc |-> 0]

FindRead(p) ==
    /\ rpc[p] = "find_read"
    /\ Returns(p, Lookup(dsm, rname[p]))
    /\ dsLck' = 0
    /\ UNCHANGED <<dsm, rid, rname, okCount>>
    /\ UNCHANGED <<supVars, protoVars>>

RegInit == SupIdle /\ RegIdle /\ ProtoIdle

RegNext ==
    \/ \E p \in Procs : \E id \in IdentitiesOf(p) \cup {NilID} :
           RegisterCall(p, id)
    \/ \E p \in Procs : RegisterNilCheck(p)
    \/ \E p \in Procs : RegisterLock(p)
    \/ \E p \in Procs : RegisterCheck(p)
    \/ \E p \in Procs : RegisterInsert(p)
    \/ \E p \in Procs : \E n \in Names : FindCall(p, n)
    \/ \E p \in Procs : FindEmptyCheck(p)
    \/ \E p \in Procs : FindLock(p)
    \/ \E p \in Procs : FindRead(p)

RegSpec == RegInit /\ [][RegNext]_vars

\* ==================================================== identity protocol
\* sync.Pool: Get hands out a conduit that is in the pool, or a new one
\* from New (capacity 1, empty); Put adds the conduit to the pool.
GetChoices(pool, made) ==
    {k \in DOMAIN pool : pool[k] > 0} \cup {k \in DOMAIN pool : k = made + 1}

Taken(pool, k) == IF pool[k] > 0 THEN [pool EXCEPT ![k] = @ - 1] ELSE pool

MadeAfter(pool, made, k) == IF pool[k] > 0 THEN made ELSE made + 1

Put(pool, k) == [pool EXCEPT ![k] = @ + 1]

\* A call of client c returns out; its locals are gone (the envelope of a
\* Send is remembered until the next call).
CReturn(c, out) ==
    /\ cPc' = [cPc EXCEPT ![c] = "idle"]
    /\ cOut' = [cOut EXCEPT ![c] = out]
    /\ cCh' = [cCh EXCEPT ![c] = 0]
    /\ cReq' = [cReq EXCEPT ![c] = IF out.op = "Send" THEN cReq[c] ELSE NoEnv]
    /\ cTimer' = [cTimer EXCEPT ![c] = 0]
    /\ cLate' = [cLate EXCEPT ![c] = FALSE]

\* ----------------------------------------------------- serving identity
\* CreateAndRegisterID: the identity is registered under its name.
ServerRegister ==
    /\ RegisterDupCheck(dsm, SrvID) = "nil"
    /\ dsm' = Insert(dsm, SrvID)
    /\ UNCHANGED <<supVars, regCallVars, protoVars>>

\* go id.Accept(ctx)
AcceptStart ==
    /\ accPc = "off"
    /\ SrvName \in DOMAIN dsm
    /\ accPc' = "select"
    /\ UNCHANGED <<srvH, srvIdle, srvDone, accMsg, hPc, hCh, hReq, hTimer, hExit,
                   hQuiet>>
    /\ UNCHANGED <<supVars, regVars, cliVars, poolVars>>

\* The context of the serving task is cancelled.
ServerCancel ==
    /\ ~srvDone
    /\ srvDone' = TRUE
    /\ UNCHANGED <<srvH, srvIdle, accPc, accMsg, hPc, hCh, hReq, hTimer, hExit,
                   hQuiet>>
    /\ UNCHANGED <<supVars, regVars, cliVars, poolVars>>

\* Accept, case <-ctx.Done()
AcceptCtxDone ==
    /\ accPc = "select"
    /\ srvDone
    /\ accPc' = "done"
    /\ UNCHANGED <<srvH, srvIdle, srvDone, accMsg, hPc, hCh, hReq, hTimer, hExit,
                   hQuiet>>
    /\ UNCHANGED <<supVars, regVars, cliVars, poolVars>>

FreeSlot == CHOOSE h \in Handlers :
                hPc[h] = "none" /\ \A h2 \in Handlers : h2 < h => hPc[h2] # "none"

\* The rendezvous on the unbuffered address: client c's `loc <- &Connect{}`
\* meets Accept's `case c, ok := <-i.ch`.  Accept borrows a request conduit
\* and starts a handling loop on it; the client enters its select.
ConnectSend(c) ==
    /\ cPc[c] = "connect_send"
    /\ accPc = "select"
    /\ \E h \in Handlers : hPc[h] = "none"
    /\ \E k \in GetChoices(reqPool, reqMade) :
         /\ reqPool' = Taken(reqPool, k)
         /\ reqMade' = MadeAfter(reqPool, reqMade, k)
         /\ hCh' = [hCh EXCEPT ![FreeSlot] = k]
         /\ accMsg' = [Chan |-> cCh[c], ReqChan |-> k]
    /\ hPc' = [hPc EXCEPT ![FreeSlot] = "select"]
    /\ hTimer' = [hTimer EXCEPT ![FreeSlot] = srvIdle]
    /\ hExit' = [hExit EXCEPT ![FreeSlot] = "none"]
    /\ hQuiet' = [hQuiet EXCEPT ![FreeSlot] = 0]
    /\ accPc' = "reply"
    /\ cPc' = [cPc EXCEPT ![c] = "connect_wait"]
    /\ UNCHANGED <<srvH, srvIdle, srvDone, hReq>>
    /\ UNCHANGED <<cDone, cCh, cConn, cReq, cTimer, cLate, cSent, cOut>>
    /\ UNCHANGED <<connPool, resPool, connMade, resMade, connBuf, reqBuf, resBuf>>
    /\ UNCHANGED <<supVars, regVars>>

\* c.Chan <- &Connection{ReqChan: ch, Timeout: i.idleTimeout}
AcceptReply ==
    /\ accPc = "reply"
    /\ Len(connBuf[accMsg.Chan]) = 0
    /\ connBuf' = [connBuf EXCEPT ![accMsg.Chan] =
                      <<[ReqChan |-> accMsg.ReqChan, Timeout |-> srvIdle]>>]
    /\ accPc' = "select"
    /\ accMsg' = NoAccMsg
    /\ UNCHANGED <<srvH, srvIdle, srvDone, hPc, hCh, hReq, hTimer, hExit,
                   hQuiet>>
    /\ UNCHANGED <<connPool, reqPool, resPool, connMade, reqMade, resMade,
                   reqBuf, resBuf>>
    /\ UNCHANGED <<supVars, regVars, cliVars>>

\* handle terminates; the deferred reqChPool.Put(ch) runs.
HandleExit(h, why) ==
    /\ hPc' = [hPc EXCEPT ![h] = "none"]
    /\ hExit' = [hExit EXCEPT ![h] = why]
    /\ UNCHANGED hQuiet
    /\ reqPool' = Put(reqPool, hCh[h])
    /\ hCh' = [hCh EXCEPT ![h] = 0]
    /\ hTimer' = [hTimer EXCEPT ![h] = 0]
    /\ UNCHANGED <<srvH, srvIdle, srvDone, accPc, accMsg, hReq>>
    /\ UNCHANGED <<connPool, resPool, connMade, reqMade, resMade,
                   connBuf, reqBuf, resBuf>>
    /\ UNCHANGED <<supVars, regVars, cliVars>>

\* handle, case <-ctx.Done()
HandleCtxDone(h) ==
    /\ hPc[h] = "select"
    /\ srvDone
    /\ HandleExit(h, "ctx")

\* handle, case <-time.After(i.idleTimeout)
HandleIdle(h) ==
    /\ hPc[h] = "select"
    /\ hTimer[h] = 0
    /\ HandleExit(h, "idle")

\* handle, case r, ok := <-ch
HandleRecv(h) ==
    /\ hPc[h] = "select"
    /\ Len(reqBuf[hCh[h]]) = 1
    /\ hReq' = [hReq EXCEPT ![h] = Head(reqBuf[hCh[h]])]
    /\ reqBuf' = [reqBuf EXCEPT ![hCh[h]] = <<>>]
    /\ hPc' = [hPc EXCEPT ![h] = "handling"]
    /\ hTimer' = [hTimer EXCEPT ![h] = 0]
    /\ hQuiet' = [hQuiet EXCEPT ![h] = 0]
    /\ UNCHANGED <<srvH, srvIdle, srvDone, accPc, accMsg, hCh, hExit>>
    /\ UNCHANGED <<connPool, reqPool, resPool, connMade, reqMade, resMade,
                   connBuf, resBuf>>
    /\ UNCHANGED <<supVars, regVars, cliVars>>

\* The response left by a handler that panicked: the deferred recover of
\* hWrapper overwrites whatever the handler had put into res.
hWrapperNoRecover(kind, env) ==
    [Status |-> "Success", Type |-> env.Type, Data |-> env.Data,
     Error |-> "", tag |-> env.tag]

hWrapperRecovered(kind, env) ==
    [Status |-> "Error", Type |-> "", Data |-> "",
     Error |-> "caught panic", tag |-> env.tag]

\* i.h(ctx, req, res) for the echo handler of the example.
echoWrongPayload(env) ==
    [Status |-> "Success", Type |-> env.Type, Data |-> "Hello",
     Error |-> "", tag |-> env.tag]

echo(env) ==
    [Status |-> "Success", Type |-> env.Type, Data |-> env.Data,
     Error |-> "", tag |-> env.tag]

\* res = &Res{} as hWrapper made it, returned by a handler that wrote nothing.
untouched(env) ==
    [Status |-> "Unknown", Type |-> "", Data |-> "", Error |-> "",
     tag |-> env.tag]

\* A handler that sets res.Status = RequestTimeout and res.Error.
busy(env) ==
    [Status |-> "RequestTimeout", Type |-> "", Data |-> "",
     Error |-> "busy", tag |-> env.tag]

\* hWrapper(&Req{Type: r.Type, Data: r.Data}): calling a nil handler
\* panics like a handler that panics by itself.
hWrapper(kind, env) ==
    CASE kind = "echo" -> echo(env)
      [] kind = "untouched" -> untouched(env)
      [] kind = "busy" -> busy(env)
      [] OTHER -> hWrapperRecovered(kind, env)

\* The idle clock a handling loop starts when it gets back to its select.
idleClockKeepsRunning(h) == 0

idleClock(h) == srvIdle

\* r.Chan <- hWrapper(...), then back to the select with a new time.After
HandleReply(h) ==
    /\ hPc[h] = "handling"
    /\ Len(resBuf[hReq[h].Chan]) = 0
    /\ resBuf' = [resBuf EXCEPT ![hReq[h].Chan] = <<hWrapper(srvH, hReq[h])>>]
    /\ hPc' = [hPc EXCEPT ![h] = "select"]
    /\ hTimer' = [hTimer EXCEPT ![h] = idleClock(h)]
    /\ hReq' = [hReq EXCEPT ![h] = NoEnv]
    /\ UNCHANGED <<srvH, srvIdle, srvDone, accPc, accMsg, hCh, hExit,
                   hQuiet>>
    /\ UNCHANGED <<connPool, reqPool, resPool, connMade, reqMade, resMade,
                   connBuf, reqBuf>>
    /\ UNCHANGED <<supVars, regVars, cliVars>>

\* ---------------------------------------------------------------- clients
\* The context a client passes to Connect and Send is cancelled.
ClientCancel(c) ==
    /\ ~cDone[c]
    /\ cDone' = [cDone EXCEPT ![c] = TRUE]
    /\ UNCHANGED <<cPc, cCh, cConn, cReq, cTimer, cLate, cSent, cOut>>
    /\ UNCHANGED <<supVars, regVars, srvVars, poolVars>>

\* Connect up to the deferred Put: the options, the lookup, the borrowed
\* reply conduit.  A lookup error of any kind becomes ErrIDNotFound.
ConnectAnyTarget(ds, id) ==
    IF ~ds THEN ErrNoDiscoveryService ELSE "nil"

ConnectCheck(ds, id) ==
    IF ~ds THEN ErrNoDiscoveryService
    ELSE IF FindNameCheck(id) # "nil" \/ Lookup(dsm, id).err # "nil"
           THEN ErrIDNotFound
           ELSE "nil"

\* Handling loops alive or about to be started.
Engaged ==
    Cardinality({h \in Handlers : hPc[h] # "none"})
      + Cardinality({c \in Clients : cPc[c] \in {"connect_send"}})

ConnectCall(c, id, ds, to) ==
    /\ cPc[c] = "idle"
    /\ IF ConnectCheck(ds, id) # "nil"
         THEN /\ CReturn(c, [NoOut EXCEPT !.op = "Connect", !.id = id,
                                          !.ds = ds,
                                          !.err = ConnectCheck(ds, id)])
              /\ UNCHANGED <<connPool, connMade>>
         ELSE /\ Engaged < MaxHandlers
              /\ \E k \in GetChoices(connPool, connMade) :
                   /\ connPool' = Taken(connPool, k)
                   /\ connMade' = MadeAfter(connPool, connMade, k)
                   /\ cCh' = [cCh EXCEPT ![c] = k]
              /\ cPc' = [cPc EXCEPT ![c] = "connect_send"]
              /\ cTimer' = [cTimer EXCEPT ![c] = to]
              /\ cOut' = [cOut EXCEPT ![c] =
                            [NoOut EXCEPT !.id = id, !.ds = ds]]
              /\ UNCHANGED <<cReq, cLate>>
    /\ UNCHANGED <<cDone, cConn, cSent>>
    /\ UNCHANGED <<reqPool, resPool, reqMade, resMade, connBuf, reqBuf, resBuf>>
    /\ UNCHANGED <<supVars, regVars, srvVars>>

\* Connect returns an error from its select; the deferred Put runs.
ConnectFail(c, e) ==
    /\ CReturn(c, [cOut[c] EXCEPT !.op = "Connect", !.err = e])
    /\ connPool' = Put(connPool, cCh[c])
    /\ UNCHANGED <<cDone, cConn, cSent>>
    /\ UNCHANGED <<reqPool, resPool, connMade, reqMade, resMade,
                   connBuf, reqBuf, resBuf>>
    /\ UNCHANGED <<supVars, regVars, srvVars>>

\* Connect, case <-ctx.Done()
ConnectCtxDone(c) ==
    /\ cPc[c] = "connect_wait"
    /\ cDone[c]
    /\ ConnectFail(c, ErrContextCompleted)

\* Connect, case <-time.After(o.Timeout)
ConnectTimeout(c) ==
    /\ cPc[c] = "connect_wait"
    /\ cTimer[c] = 0
    /\ ConnectFail(c, ErrConnectTimeout)

\* Connect, case c, ok := <-ch
ConnectRecv(c) ==
    /\ cPc[c] = "connect_wait"
    /\ Len(connBuf[cCh[c]]) = 1
    /\ CReturn(c, [cOut[c] EXCEPT !.op = "Connect",
                                  !.conn = Head(connBuf[cCh[c]]).ReqChan])
    /\ cConn' = [cConn EXCEPT ![c] = Head(connBuf[cCh[c]]).ReqChan]
    /\ connBuf' = [connBuf EXCEPT ![cCh[c]] = <<>>]
    /\ connPool' = Put(connPool, cCh[c])
    /\ UNCHANGED <<cDone, cSent>>
    /\ UNCHANGED <<reqPool, resPool, connMade, reqMade, resMade, reqBuf, resBuf>>
    /\ UNCHANGED <<supVars, regVars, srvVars>>

\* Send(ctx, req, c.ReqChan, WithSendTimeout(to)) on the Connection the
\* client holds: rCh := resChPool.Get()
SendCall(c, req, to) ==
    /\ cPc[c] = "idle"
    /\ cConn[c] # 0
    /\ cSent[c] < MaxSends
    /\ \E k \in GetChoices(resPool, resMade) :
         /\ resPool' = Taken(resPool, k)
         /\ resMade' = MadeAfter(resPool, resMade, k)
         /\ cCh' = [cCh EXCEPT ![c] = k]
         /\ cReq' = [cReq EXCEPT ![c] =
                       [Type |-> req.Type, Data |-> req.Data, Chan |-> k,
                        tag |-> <<c, cSent[c] + 1>>]]
    /\ cSent' = [cSent EXCEPT ![c] = @ + 1]
    /\ cPc' = [cPc EXCEPT ![c] = "send_push"]
    /\ cTimer' = [cTimer EXCEPT ![c] = to]
    /\ cOut' = [cOut EXCEPT ![c] = NoOut]
    /\ UNCHANGED <<cDone, cConn, cLate>>
    /\ UNCHANGED <<connPool, reqPool, connMade, reqMade, connBuf, reqBuf, resBuf>>
    /\ UNCHANGED <<supVars, regVars, srvVars>>

\* ch <- &ReqWithChan{...}: blocks while the request conduit is full
SendPush(c) ==
    /\ cPc[c] = "send_push"
    /\ Len(reqBuf[cConn[c]]) = 0
    /\ reqBuf' = [reqBuf EXCEPT ![cConn[c]] = <<cReq[c]>>]
    /\ cPc' = [cPc EXCEPT ![c] = "send_wait"]
    /\ UNCHANGED <<cDone, cCh, cConn, cReq, cTimer, cLate, cSent, cOut>>
    /\ UNCHANGED <<connPool, reqPool, resPool, connMade, reqMade, resMade,
                   connBuf, resBuf>>
    /\ UNCHANGED <<supVars, regVars, srvVars>>

SendOut(c, r) == [NoOut EXCEPT !.op = "Send", !.res = r, !.late = cLate[c]]

\* Send's deferred function: a timed-out result waits for the late response
\* before the conduit goes back to the pool.
SendNeedsDrain(r) == r # NilRes /\ r.Status = "RequestTimeout"

\* Send, case <-ctx.Done(): Put, return nil, and the deferred Put
SendCtxDone(c) ==
    /\ cPc[c] = "send_wait"
    /\ cDone[c]
    /\ CReturn(c, SendOut(c, NilRes))
    /\ resPool' = Put(Put(resPool, cCh[c]), cCh[c])
    /\ UNCHANGED <<cDone, cConn, cSent>>
    /\ UNCHANGED <<connPool, reqPool, connMade, reqMade, resMade,
                   connBuf, reqBuf, resBuf>>
    /\ UNCHANGED <<supVars, regVars, srvVars>>

\* Send leaves its select with result r and runs the deferred function.
SendLeave(c, r) ==
    /\ IF SendNeedsDrain(r)
         THEN /\ cPc' = [cPc EXCEPT ![c] = "send_drain"]
              /\ cOut' = [cOut EXCEPT ![c] = SendOut(c, r)]
              /\ cTimer' = [cTimer EXCEPT ![c] = 0]
              /\ UNCHANGED <<cCh, cReq, cLate, resPool>>
         ELSE /\ CReturn(c, SendOut(c, r))
              /\ resPool' = Put(resPool, cCh[c])
    /\ UNCHANGED <<cDone, cConn, cSent>>
    /\ UNCHANGED <<connPool, reqPool, connMade, reqMade, resMade,
                   connBuf, reqBuf>>
    /\ UNCHANGED <<supVars, regVars, srvVars>>

\* Send, case r, ok := <-rCh
SendRecv(c) ==
    /\ cPc[c] = "send_wait"
    /\ Len(resBuf[cCh[c]]) = 1
    /\ resBuf' = [resBuf EXCEPT ![cCh[c]] = <<>>]
    /\ SendLeave(c, Head(resBuf[cCh[c]]))

\* Send, case <-time.After(o.Timeout)
SendTimeout(c) ==
    /\ cPc[c] = "send_wait"
    /\ cTimer[c] = 0
    /\ UNCHANGED resBuf
    /\ SendLeave(c, [Status |-> "RequestTimeout", Type |-> "", Data |-> "",
                     Error |-> "timeout", tag |-> NoTag])

\* the deferred `<-rCh`, then resChPool.Put(rCh) and the return
SendDrain(c) ==
    /\ cPc[c] = "send_drain"
    /\ Len(resBuf[cCh[c]]) = 1
    /\ resBuf' = [resBuf EXCEPT ![cCh[c]] = <<>>]
    /\ resPool' = Put(resPool, cCh[c])
    /\ CReturn(c, [cOut[c] EXCEPT !.late = cLate[c]])
    /\ UNCHANGED <<cDone, cConn, cSent>>
    /\ UNCHANGED <<connPool, reqPool, connMade, reqMade, resMade,
                   connBuf, reqBuf>>
    /\ UNCHANGED <<supVars, regVars, srvVars>>

\* ------------------------------------------------------------------ time
\* One unit of time passes.  Every pending time.After counts down; time does
\* not pass a timer that has expired before the select waiting on it has
\* taken a branch.
InSelect(c) == cPc[c] \in {"connect_wait", "send_wait"}

\* A Send blocked outside its select: on the push, or on the deferred drain.
SendBlocked(c) == cPc[c] \in {"send_push", "send_drain"}

Tick ==
    /\ \A c \in Clients : InSelect(c) => cTimer[c] > 0
    /\ \A h \in Handlers : hPc[h] = "select" => hTimer[h] > 0
    /\ cTimer' = [c \in Clients |->
                    IF InSelect(c) THEN cTimer[c] - 1 ELSE cTimer[c]]
    /\ hTimer' = [h \in Handlers |->
                    IF hPc[h] = "select" THEN hTimer[h] - 1 ELSE hTimer[h]]
    /\ cLate' = [c \in Clients |-> cLate[c] \/ SendBlocked(c)]
    /\ UNCHANGED <<cDone, cPc, cCh, cConn, cReq, cSent, cOut>>
    /\ hQuiet' = [h \in Handlers |->
                     IF hPc[h] # "none" /\ hQuiet[h] < srvIdle
                       THEN hQuiet[h] + 1 ELSE hQuiet[h]]
    /\ UNCHANGED <<srvH, srvIdle, srvDone, accPc, accMsg, hPc, hCh, hReq, hExit>>
    /\ UNCHANGED <<supVars, regVars, poolVars>>

ProtoInit ==
    /\ SupIdle
    /\ RegIdle
    /\ \E h \in HandlerKinds : \E d \in IdleTimeouts : ProtoIdleWith(h, d)

ProtoNext ==
    \/ ServerRegister
    \/ AcceptStart
    \/ ServerCancel
    \/ AcceptCtxDone
    \/ \E c \in Clients : ConnectSend(c)
    \/ AcceptReply
    \/ \E h \in Handlers : HandleCtxDone(h)
    \/ \E h \in Handlers : HandleIdle(h)
    \/ \E h \in Handlers : HandleRecv(h)
    \/ \E h \in Handlers : HandleReply(h)
    \/ \E c \in Clients : ClientCancel(c)
    \/ \E c \in Clients : \E id \in Names : \E ds \in BOOLEAN :
         \E to \in ConnectTimeouts : ConnectCall(c, id, ds, to)
    \/ \E c \in Clients : ConnectCtxDone(c)
    \/ \E c \in Clients : ConnectTimeout(c)
    \/ \E c \in Clients : ConnectRecv(c)
    \/ \E c \in Clients : \E req \in Reqs : \E to \in SendTimeouts :
         SendCall(c, req, to)
    \/ \E c \in Clients : SendPush(c)
    \/ \E c \in Clients : SendCtxDone(c)
    \/ \E c \in Clients : SendRecv(c)
    \/ \E c \in Clients : SendTimeout(c)
    \/ \E c \in Clients : SendDrain(c)
    \/ Tick

ProtoSpec == ProtoInit /\ [][ProtoNext]_vars

\* Every goroutine of the protocol keeps running and time keeps passing.
\* When a client calls or cancels, and when the serving task registers,
\* starts accepting or is cancelled, is not forced.  A select chooses at
\* random among its ready cases, so the accept loop, which can find a connect
\* request ready any number of times, does not pass over a ready ctx.Done()
\* for ever.
ProtoFairness ==
    /\ SF_vars(AcceptCtxDone)
    /\ WF_vars(AcceptReply)
    /\ \A c \in Clients : WF_vars(ConnectSend(c))
    /\ \A h \in Handlers : WF_vars(HandleCtxDone(h) \/ HandleIdle(h))
    /\ \A h \in Handlers : WF_vars(HandleRecv(h))
    /\ \A h \in Handlers : WF_vars(HandleReply(h))
    /\ \A c \in Clients : WF_vars(ConnectCtxDone(c) \/ ConnectTimeout(c))
    /\ \A c \in Clients : WF_vars(ConnectRecv(c))
    /\ \A c \in Clients : WF_vars(SendPush(c))
    /\ \A c \in Clients : WF_vars(SendCtxDone(c) \/ SendTimeout(c))
    /\ \A c \in Clients : WF_vars(SendRecv(c))
    /\ \A c \in Clients : WF_vars(SendDrain(c))
    /\ WF_vars(Tick)

ProtoLiveSpec == ProtoInit /\ [][ProtoNext]_vars /\ ProtoFairness

\* ------------------------------------------------------------- vocabulary
Launched == watcherPc # "none"
Returned == mainPc = "returned"
Spawned(i) == wpc[i] # "none"
TaskExited(i) == wpc[i] \in {"exited", "done"}
AllSpawnedCancelled == \A i \in Tasks : Spawned(i) => csDone[i]
NoWorker == \A i \in Tasks : wpc[i] = "none" /\ invoked[i] = 0

\* A shutdown trigger has occurred: a task body ended, the caller's context
\* completed, or an interrupt arrived.
Trigger == ctxDone \/ interrupts > 0 \/ \E i \in Tasks : TaskExited(i)

Min(S) == CHOOSE x \in S : \A y \in S : x <= y

\* Positions that repeat an explicit name of an earlier declaration.
DupPositions(fs) ==
    {j \in 1..Len(fs) :
        \E i \in 1..(j - 1) : fs[i].Name # "" /\ fs[i].Name = fs[j].Name}

\* Positions whose task body is absent.
NilPositions(fs) == {i \in 1..Len(fs) : fs[i].Func = "nil"}

TimedOutLine == <<"timed out waiting for Done() from contexts", 0>>

\* ------------------------------------------------------------------ claims

\* C1: when a spawned task's body returns or panics, the context of every
\* spawned task eventually becomes cancelled.
C1_TaskExitCancelsAll ==
    (\E i \in Tasks : TaskExited(i)) ~> AllSpawnedCancelled

\* C2: when the caller's context completes while tasks are running, the
\* context of every spawned task eventually becomes cancelled, whichever of
\* the cascade watcher and the join watcher runs first.
C2_CtxDoneCancelsAll ==
    (Launched /\ ctxDone) ~> AllSpawnedCancelled

C4_ReturnsAfterTrigger ==
    /\ []((Returned /\ result = "nil") => (Trigger /\ exitVia # "none"))
    /\ [](exitVia = "alldone" =>
            \A i \in Tasks : Spawned(i) => (TaskExited(i) /\ chBuf[i] = 0))
    /\ (Launched /\ Trigger) ~> Returned

\* C4 witness: the call has returned through the all-done branch after two
\* workers signalled completion.
C4_Witness ==
    /\ Returned
    /\ exitVia = "alldone"
    /\ Len(chs) >= 2
    /\ \A i \in Tasks : TaskExited(i)

\* C5: an empty batch makes either entry point return
\* ErrMissingStartableFunctions with no worker, no watcher and no registry.
C5_EmptyBatchRejected ==
    Len(funcs) = 0 =>
        /\ Returned => result = ErrMissingStartableFunctions
        /\ watcherPc = "none"
        /\ bridgePc = "none"
        /\ joinPc = "none"
        /\ ~notifying
        /\ ~hasDS
        /\ cfs = <<>>

\* C5 witness: StartFunctions has returned for an empty batch.
C5_Witness ==
    /\ Len(funcs) = 0
    /\ entry = "StartFunctions"
    /\ Returned
    /\ result = ErrMissingStartableFunctions

\* C6 as stated: a batch repeating an explicit name is rejected with
\* ErrNameAlreadyExists and none of its bodies is invoked.
C6_DuplicateAlwaysNameError ==
    DupPositions(funcs) # {} =>
        /\ NoWorker
        /\ Returned => result = ErrNameAlreadyExists

\* C6 amended: a batch repeating an explicit name is rejected and none of its
\* bodies is invoked; the error is ErrNameAlreadyExists unless a declaration
\* with a nil body stands before the first repeated name, in which case it is
\* ErrFuncMustNotBeNil.
C6_DuplicateRejected ==
    DupPositions(funcs) # {} =>
        /\ NoWorker
        /\ Returned =>
              result = IF \E i \in NilPositions(funcs) :
                              i < Min(DupPositions(funcs))
                       THEN ErrFuncMustNotBeNil
                       ELSE ErrNameAlreadyExists

\* C6 witness: a batch with a repeated explicit name was rejected with
\* ErrNameAlreadyExists.
C6_Witness ==
    /\ DupPositions(funcs) # {}
    /\ Returned
    /\ result = ErrNameAlreadyExists

\* C7 as stated: a batch with a nil body is rejected with
\* ErrFuncMustNotBeNil and none of its bodies is invoked.
C7_NilBodyAlwaysFuncError ==
    NilPositions(funcs) # {} =>
        /\ NoWorker
        /\ Returned => result = ErrFuncMustNotBeNil

\* C7 amended: a batch with a nil body is rejected and none of its bodies is
\* invoked, the valid declarations before it included; the error is
\* ErrFuncMustNotBeNil unless an explicit name is repeated at or before the
\* first nil body, in which case it is ErrNameAlreadyExists.
C7_NilBodyRejected ==
    NilPositions(funcs) # {} =>
        /\ NoWorker
        /\ Returned =>
              result = IF \E j \in DupPositions(funcs) :
                              j <= Min(NilPositions(funcs))
                       THEN ErrNameAlreadyExists
                       ELSE ErrFuncMustNotBeNil

\* C7 witness: a batch whose nil body follows a valid declaration was
\* rejected with ErrFuncMustNotBeNil.
C7_Witness ==
    /\ Len(funcs) >= 2
    /\ funcs[1].Func # "nil"
    /\ funcs[2].Func = "nil"
    /\ Returned
    /\ result = ErrFuncMustNotBeNil

\* C8: a panic of a task body is recovered in its worker, which goes on to
\* signal completion; it is reported to the sink whenever there is one
\* (panics-only mode included), it never kills the process, and the call
\* still returns nil.
C8_PanicContained ==
    \A i \in Tasks :
        outcome[i] = "panicked" =>
            /\ crash # "panic in task body"
            /\ TaskExited(i)
            /\ (wpc[i] = "done" /\ o.Logger) =>
                    <<"caught unhandled panic", i>> \in log
            /\ Returned => result = "nil"

\* C8 witness: under panics-only logging a task has panicked, its worker has
\* finished and the call has returned.
C8_Witness ==
    /\ o.Logger
    /\ o.ReportPanicsOnly
    /\ Returned
    /\ \E i \in Tasks : outcome[i] = "panicked" /\ wpc[i] = "done"

\* C9: when the shutdown timeout elapses first, the shortfall is logged (by a
\* sink that records lifecycle lines), the call returns nil, and the timeout
\* leads to no failure of the supervisor.
C9_TimeoutHarmless ==
    exitVia = "timeout" =>
        /\ result = "nil"
        /\ (o.Logger /\ ~o.ReportPanicsOnly) => TimedOutLine \in log
        /\ crash = "none"

\* C10: an interrupt delivered before the shutdown context is done leads to
\* the cancellation of every spawned task's context; the bridge takes at most one interrupt, and once
\* the shutdown context is done it terminates with signal delivery stopped
\* (as long as the process lives).
C10_InterruptCascades ==
    /\ (signalChan > 0 /\ ~shutdownDone) ~> AllSpawnedCancelled
    /\ [](handled <= 1)
    /\ [](bridgePc = "done" => ~notifying)
    /\ (Launched /\ shutdownDone) ~> (bridgePc = "done" \/ crash # "none")

\* ------------------------------------------ vocabulary of the registry
\* Caller p's call returns in this step.
CallReturns(p) == rpc[p] # "idle" /\ rpc'[p] = "idle"

C12_FindOutcome ==
    [][\A p \in Procs :
         /\ (CallReturns(p) /\ rres'[p].op = "Find") =>
              /\ rname[p] = "" =>
                   rres'[p] = [op |-> "Find", err |-> ErrInvalidID, loc |-> 0]
              /\ (rname[p] # "" /\ rname[p] \notin DOMAIN dsm) =>
                   rres'[p] = [op |-> "Find", err |-> ErrIDNotFound, loc |-> 0]
              /\ (rname[p] # "" /\ rname[p] \in DOMAIN dsm) =>
                   /\ rres'[p].err = "nil"
                   /\ rres'[p].loc = dsm[rname[p]].ch
                   /\ dsm[rname[p]].id = rname[p]
         /\ (rpc[p] \in {"find_enter", "find_lock", "find_read"}
               /\ rpc'[p] # rpc[p]) => dsm' = dsm]_vars

\* A caller found the address of an identity another caller registered.
C12_Witness ==
    \E p \in Procs :
        /\ rpc[p] = "idle"
        /\ rres[p].op = "Find"
        /\ rres[p].err = "nil"
        /\ rres[p].loc \in Procs \ {p}
        /\ rname[p] \in DOMAIN dsm

\* C13: under concurrent callers at most one Register per name returns nil
\* and every other Register of that name returns ErrIDAlreadyRegistered; a
\* binding, once made, is never removed or replaced; and every Find of a
\* name that returns after a Register of that name has succeeded returns
\* nil with the address of the identity that was registered.
C13_UniqueAndFindable ==
    /\ [](\A n \in Names : okCount[n] <= 1 /\ (okCount[n] = 1 <=> n \in DOMAIN dsm))
    /\ [][/\ \A n \in DOMAIN dsm : n \in DOMAIN dsm' /\ dsm'[n] = dsm[n]
          /\ \A p \in Procs :
               /\ (CallReturns(p) /\ rres'[p].op = "Register"
                     /\ rid[p] # NilID /\ okCount[rid[p].id] = 1) =>
                    rres'[p].err = ErrIDAlreadyRegistered
               /\ (CallReturns(p) /\ rres'[p].op = "Find"
                     /\ okCount[rname[p]] = 1) =>
                    /\ rres'[p].err = "nil"
                    /\ rres'[p].loc = dsm[rname[p]].ch]_vars

\* -------------------------------------------- vocabulary of the protocol
\* Client c is inside Connect, past the lookup.
Connecting(c) == cPc[c] \in {"connect_send", "connect_wait"}

\* Client c's last call has returned and was a Connect / a Send.
Connected(c) == cPc[c] = "idle" /\ cOut[c].op = "Connect"

Sent(c) == cPc[c] = "idle" /\ cOut[c].op = "Send"

\* C14: a Connect given no registry returns ErrNoDiscoveryService, and a
\* Connect to a name that is not in the registry returns ErrIDNotFound;
\* neither returns a Connection, and a Connect gets as far as sending its
\* connect request only with a registry and a name registered in it.
C14_ConnectRejected ==
    \A c \in Clients :
        /\ (Connected(c) /\ ~cOut[c].ds) =>
              cOut[c].err = ErrNoDiscoveryService /\ cOut[c].conn = 0
        /\ (Connected(c) /\ cOut[c].ds /\ cOut[c].id \notin DOMAIN dsm) =>
              cOut[c].err = ErrIDNotFound /\ cOut[c].conn = 0
        /\ Connecting(c) => cOut[c].ds /\ cOut[c].id \in DOMAIN dsm

\* A Connect that had a registry was rejected for a name that is not in it,
\* while the serving identity is registered and accepting.
C14_Witness ==
    /\ accPc = "select"
    /\ \E c \in Clients :
          /\ Connected(c)
          /\ cOut[c].err = ErrIDNotFound
          /\ cOut[c].ds
          /\ cOut[c].id \notin DOMAIN dsm

\* No context has been cancelled.
NoCancellation == ~srvDone /\ \A c \in Clients : ~cDone[c]

\* C15: with the echo handler and no cancellation, a Send that returns
\* without having timed out returns a Res with status Success and the type
\* and payload of its own request, whatever the request was.
C15_RoundTrip ==
    \A c \in Clients :
        (Sent(c) /\ srvH = "echo" /\ NoCancellation
           /\ cOut[c].res.Status # "RequestTimeout") =>
            /\ cOut[c].res.Status = "Success"
            /\ cOut[c].res.Type = cReq[c].Type
            /\ cOut[c].res.Data = cReq[c].Data
            /\ cOut[c].res.tag = cReq[c].tag

\* The second kind of request has made the round trip, as the client's
\* last Send.
C15_Witness ==
    \E c \in Clients :
        /\ Sent(c) /\ srvH = "echo" /\ NoCancellation
        /\ cOut[c].res.Status = "Success"
        /\ cReq[c].Type = "num"
        /\ cOut[c].res.Data = "42"
        /\ cSent[c] = MaxSends

\* C16: a Send that times out returns its RequestTimeout result when the
\* timeout elapses: no time passes while the call, its timeout already
\* elapsed, still waits for the handler's response, and none has passed
\* outside the timed wait when it returns.
C16_TimeoutOnTime ==
    \A c \in Clients :
        /\ cPc[c] = "send_drain" => ~cLate[c]
        /\ (Sent(c) /\ cOut[c].res.Status = "RequestTimeout") => ~cOut[c].late

\* The request tagged t, or the response produced for it, is still on its
\* way: in a request conduit, with a handling loop, or in a response conduit.
InFlight(t) ==
    \/ \E k \in ReqChans : reqBuf[k] # <<>> /\ Head(reqBuf[k]).tag = t
    \/ \E h \in Handlers : hPc[h] = "handling" /\ hReq[h].tag = t
    \/ \E k \in ResChans : resBuf[k] # <<>> /\ Head(resBuf[k]).tag = t

\* C17: once a Send that timed out has returned (its response conduit is
\* back in the pool), the response for its request has been drained: neither
\* the request nor its response is still on its way, so no later borrower
\* of the conduit can receive it.
C17_DrainedBeforePut ==
    \A c \in Clients :
        (Sent(c) /\ cOut[c].res.Status = "RequestTimeout") =>
            ~InFlight(cReq[c].tag)

\* C18: a handling loop is never ended by its idle clock before a full idle
\* timeout has passed since it started or last received an envelope; a
\* handling loop that ends puts its request conduit back into the pool; and
\* a handling loop waiting with a full idle timeout behind it does not go
\* on waiting: it ends, unless an envelope or a cancellation comes first.
C18_IdleExpiry ==
    /\ [](\A h \in Handlers :
            (hPc[h] = "none" /\ hExit[h] = "idle") => hQuiet[h] >= srvIdle)
    /\ [][\A h \in Handlers :
            (hPc[h] # "none" /\ hPc'[h] = "none") =>
              reqPool'[hCh[h]] = reqPool[hCh[h]] + 1]_vars
    /\ \A h \in Handlers :
          (hPc[h] = "select" /\ hQuiet[h] >= srvIdle) ~> (hPc[h] # "select")

\* A handling loop that served a request was later ended by its idle clock,
\* no context cancelled, and its conduit is in the pool.
C18_Witness ==
    \E h \in Handlers :
        /\ hPc[h] = "none" /\ hExit[h] = "idle"
        /\ NoCancellation
        /\ \E c \in Clients : Sent(c) /\ cOut[c].res.Status \in {"Success", "Error"}
        /\ \E k \in ReqChans : reqPool[k] = 1

\* C19: when the handler panics or is absent, every response a Send gets
\* has status Error, an error detail, and empty type and payload; the
\* handling loop goes from each request back to its wait, and the accept
\* loop ends only when its context is cancelled.
C19_HandlerPanicContained ==
    /\ \A c \in Clients :
          (Sent(c) /\ srvH \in {"panic", "nil"}
             /\ cOut[c].res.Status \notin {"nil", "RequestTimeout"}) =>
              /\ cOut[c].res.Status = "Error"
              /\ cOut[c].res.Error = "caught panic"
              /\ cOut[c].res.Type = ""
              /\ cOut[c].res.Data = ""
    /\ accPc = "done" => srvDone
    /\ \A h \in Handlers :
          (hPc[h] = "none" /\ hExit[h] # "none" /\ ~srvDone) => hExit[h] = "idle"

\* A client's second Send on the same connection got the Error response for
\* its own request, nothing cancelled and the accept loop still waiting.
C19_Witness ==
    \E c \in Clients :
        /\ Sent(c) /\ srvH \in {"panic", "nil"} /\ NoCancellation
        /\ cSent[c] = 2
        /\ cOut[c].res.Status = "Error"
        /\ cOut[c].res.tag = <<c, 2>>
        /\ accPc = "select"
        /\ \E h \in Handlers : hPc[h] = "select"

\* C20: every Connect that has resolved its target returns, whether or not
\* an accept loop is consuming the target's address.
C20_ConnectReturns ==
    \A c \in Clients : Connecting(c) ~> (cPc[c] = "idle")

\* Client c is inside Send.
InSend(c) == cPc[c] \in {"send_push", "send_wait", "send_drain"}

\* C21: a Send that leaves its wait with the caller's context completed, no
\* response in its conduit and its timeout not elapsed returns nil; and a
\* Send call whose caller's context has completed always returns, whatever
\* the state of the handling loop and of the request conduit.
C21_SendReturnsOnCancel ==
    /\ [][\A c \in Clients :
            (cPc[c] = "send_wait" /\ cPc'[c] # "send_wait" /\ cDone[c]
               /\ resBuf[cCh[c]] = <<>> /\ cTimer[c] > 0) =>
              (cPc'[c] = "idle" /\ cOut'[c].op = "Send"
                 /\ cOut'[c].res = NilRes)]_vars
    /\ \A c \in Clients : (InSend(c) /\ cDone[c]) ~> (cPc[c] = "idle")

C23_WorkerExitSequence ==
    /\ [](\A i \in Tasks : chBuf[i] <= 1 /\ (TaskExited(i) => csDone[i]))
    /\ [][\A i \in Tasks :
            /\ (wpc[i] = "running" /\ wpc'[i] # "running") =>
                  /\ wpc'[i] = "exited"
                  /\ csDone'[i]
                  /\ chBuf[i] = 0 /\ chBuf'[i] = 1
                  /\ shutdownDone' = shutdownDone
            /\ chBuf'[i] > chBuf[i] => wpc[i] = "running"
            /\ TaskExited(i) => TaskExited(i)'
            /\ (wpc[i] = "exited" /\ wpc'[i] # "exited") =>
                  wpc'[i] = "done" /\ shutdownDone']_vars
    /\ \A i \in 1..MaxFuncs :
          (i \in Tasks /\ wpc[i] = "exited") ~> (i \in Tasks /\ wpc[i] = "done")

\* C24: the cascade watcher enumerates the cancel operations at most once
\* and the exit context is signalled at most once, by that enumeration; once
\* the shutdown context is done no further trigger undoes it, and once the
\* cascade has run no trigger (task exits, completion of the caller's
\* context, interrupts) changes the watcher, the shutdown context, the exit
\* context or the registered cancel operations, nor cancels a context other
\* than that of the worker whose body ends.
C24_CascadeOnce ==
    /\ [](cascades <= 1 /\ (exitDone <=> cascades = 1)
            /\ (watcherPc = "done" <=> cascades = 1))
    /\ [][/\ shutdownDone => shutdownDone'
          /\ watcherPc = "done" =>
               /\ watcherPc' = "done"
               /\ cascades' = cascades
               /\ exitDone' = exitDone
               /\ cfs' = cfs
               /\ \A i \in Tasks :
                    csDone'[i] # csDone[i] =>
                       wpc[i] = "running" /\ wpc'[i] = "exited"]_vars

\* C24 witness: the cascade has run once although the caller's context
\* completed, an interrupt was taken and a worker triggered the shutdown.
C24_Witness ==
    /\ cascades = 1
    /\ exitDone
    /\ ctxDone
    /\ handled = 1
    /\ \E i \in Tasks : wpc[i] = "done"

\* The cancel operation of task i is registered with the supervisor.
Registered(i) == \E k \in 1..Len(cfs) : cfs[k] = i

\* C25 as stated: no worker is spawned once the shutdown context is done;
\* every spawned worker has its cancel operation registered; and after the
\* cascade has run every spawned task's context is cancelled.
C25_NoSpawnAfterShutdown ==
    /\ [][\A i \in Tasks : (~Spawned(i) /\ Spawned(i)') => ~shutdownDone]_vars
    /\ [](\A i \in Tasks : Spawned(i) => Registered(i))
    /\ [](cascades = 1 => AllSpawnedCancelled)

\* C25 amended: addFn goes on to spawn only when it finds the shutdown
\* context not done once it holds the lock; the shutdown context may become
\* done between that test and the spawn, but a worker is spawned only under
\* the lock, together with the registration of its cancel operation and
\* before the cascade has enumerated the cancel operations; so after the
\* cascade has run every spawned task's context is cancelled.
C25_NoWorkerEscapesCascade ==
    /\ [][/\ (mainPc = "addFn" /\ mainPc' = "addFnAppend") => ~shutdownDone
          /\ \A i \in Tasks :
               (~Spawned(i) /\ Spawned(i)') =>
                  /\ lck = "main"
                  /\ watcherPc # "done"
                  /\ ~Registered(i) /\ Registered(i)']_vars
    /\ [](\A i \in Tasks : Spawned(i) => Registered(i))
    /\ [](cascades = 1 => AllSpawnedCancelled)

\* C25 witness: the cascade has run while a worker spawned just before it
\* had not yet begun its body, and that worker's context is cancelled.
C25_Witness ==
    /\ cascades = 1
    /\ shutdownDone
    /\ \E i \in Tasks : wpc[i] = "start" /\ csDone[i] /\ Registered(i)

\* C26: Connect leaves its wait by priority: with the caller's context
\* completed it returns ErrContextCompleted, whether or not the timeout has
\* elapsed or the reply has arrived; otherwise, with the timeout elapsed, it
\* returns ErrConnectTimeout even if the reply has arrived.
C26_ConnectPriority ==
    [][\A c \in Clients :
         (cPc[c] = "connect_wait" /\ cPc'[c] = "idle") =>
            /\ cDone[c] => cOut'[c].err = ErrContextCompleted
            /\ (~cDone[c] /\ cTimer[c] = 0) =>
                  cOut'[c].err = ErrConnectTimeout]_vars

\* C27: when the accept loop consumes a connect request it starts exactly
\* one handling loop, on a request conduit no other handling loop serves,
\* and notes the requester's reply conduit; it then always replies, once,
\* with a Connection carrying that request conduit and the idle timeout,
\* starting no further handling loop; and a Connect that returns a
\* Connection while the target's context is live returns a request conduit
\* that a handling loop is serving.
C27_OneHandlerOneReply ==
    /\ [][(accPc = "select" /\ accPc' = "reply") =>
            \E h \in Handlers : \E c \in Clients :
              /\ hPc[h] = "none" /\ hPc'[h] = "select"
              /\ \A h2 \in Handlers \ {h} :
                    /\ hPc'[h2] = hPc[h2] /\ hCh'[h2] = hCh[h2]
                    /\ hPc[h2] # "none" => hCh[h2] # hCh'[h]
              /\ hCh'[h] = accMsg'.ReqChan
              /\ cPc[c] = "connect_send" /\ cPc'[c] = "connect_wait"
              /\ accMsg'.Chan = cCh[c]]_vars
    /\ [][(accPc = "reply" /\ accPc' # "reply") =>
            /\ accPc' = "select"
            /\ connBuf'[accMsg.Chan] =
                  <<[ReqChan |-> accMsg.ReqChan, Timeout |-> srvIdle]>>
            /\ hPc' = hPc /\ hCh' = hCh]_vars
    /\ (accPc = "reply") ~> (accPc = "select")
    /\ [][\A c \in Clients :
            (cPc[c] = "connect_wait" /\ cPc'[c] = "idle"
               /\ cOut'[c].err = "nil" /\ ~srvDone) =>
              \E h \in Handlers :
                 hPc'[h] # "none" /\ hCh'[h] = cOut'[c].conn]_vars

\* C28: whenever the accept loop is about to write a Connection, or a
\* handling loop a Res, the conduit written to is empty; so each write
\* completes and the loop gets back to its wait, and the accept loop and
\* every handling loop terminate once their context is cancelled.
C28_ReplyNeverBlocks ==
    /\ [](accPc = "reply" => connBuf[accMsg.Chan] = <<>>)
    /\ [](\A h \in Handlers :
            hPc[h] = "handling" => resBuf[hReq[h].Chan] = <<>>)
    /\ (accPc = "reply") ~> (accPc = "select")
    /\ \A h \in Handlers : (hPc[h] = "handling") ~> (hPc[h] = "select")
    /\ (srvDone /\ accPc \in {"select", "reply"}) ~> (accPc = "done")
    /\ \A h \in Handlers : (srvDone /\ hPc[h] # "none") ~> (hPc[h] = "none")

\* C29: when a Connect gives up (caller cancellation or connect timeout)
\* after the accept loop consumed its request, the reply conduit it puts
\* back is empty and the accept loop is not about to write to it; when a
\* Send gives up on caller cancellation, the response conduit it puts back
\* is empty and neither its envelope nor the response to it is still on its
\* way; a value is written to a reply or response conduit only while a call
\* that borrowed it is waiting on it; and every response a Send receives is
\* the response to its own envelope.
C29_AbandonedConduitClean ==
    [][\A c \in Clients :
         /\ (cPc[c] = "connect_wait" /\ cPc'[c] = "idle"
               /\ cOut'[c].err \in {ErrContextCompleted, ErrConnectTimeout}) =>
              /\ connBuf'[cCh[c]] = <<>>
              /\ accMsg'.Chan # cCh[c]
         /\ (cPc[c] = "send_wait" /\ cPc'[c] = "idle"
               /\ cOut'[c].res = NilRes) =>
              /\ resBuf'[cCh[c]] = <<>>
              /\ ~InFlight(cReq[c].tag)'
         /\ \A k \in ConnChans :
              (connBuf[k] = <<>> /\ connBuf'[k] # <<>>) =>
                 \E c2 \in Clients : cPc[c2] = "connect_wait" /\ cCh[c2] = k
         /\ \A k \in ResChans :
              (resBuf[k] = <<>> /\ resBuf'[k] # <<>>) =>
                 \E c2 \in Clients :
                    cPc[c2] \in {"send_wait", "send_drain"} /\ cCh[c2] = k
         /\ (InSend(c) /\ cPc'[c] = "idle"
               /\ cOut'[c].res.Status \in {"Success", "Error"}) =>
              cOut'[c].res.tag = cReq[c].tag]_vars

\* C30: a handling loop that terminates leaves its request conduit empty;
\* an envelope is pushed only into a request conduit that a handling loop
\* is serving; and a handling loop starts on an empty request conduit, so
\* it never processes an envelope pushed before it was started.
C30_PooledRequestConduitClean ==
    [][/\ \A h \in Handlers :
            /\ (hPc[h] # "none" /\ hPc'[h] = "none") =>
                  reqBuf'[hCh[h]] = <<>>
            /\ (hPc[h] = "none" /\ hPc'[h] # "none") =>
                  reqBuf'[hCh'[h]] = <<>>
       /\ \A k \in ReqChans :
            (reqBuf[k] = <<>> /\ reqBuf'[k] # <<>>) =>
               \E h \in Handlers : hPc[h] # "none" /\ hCh[h] = k]_vars

\* ------------------------------------------------------------------ C31
\* The step in which Send's select takes a response from its conduit.
SendTakes(c) ==
    /\ cPc[c] = "send_wait"
    /\ Len(resBuf[cCh[c]]) = 1
    /\ resBuf'[cCh[c]] = <<>>

\* C31: when Send's select receives a response, Send returns exactly that
\* response in the same step, without waiting for anything else, whatever
\* Status (Unknown, Success, Error or RequestTimeout) the handler gave it.
C31_SendReturnsResponse ==
    [][\A c \in Clients :
          SendTakes(c) =>
              /\ cPc'[c] = "idle"
              /\ cOut'[c].op = "Send"
              /\ cOut'[c].res = Head(resBuf[cCh[c]])]_vars

\* ------------------------------------------------------------------ C32
\* C32: the join watcher is never about to send its all-done notification
\* on the channel that awaitExit's deferred close(ch) has closed, and no
\* such send has brought the process down.
C32_NoSendOnClosed ==
    /\ ~(joinPc = "send" /\ chClosed)
    /\ crash # "send on closed channel"

\* ------------------------------------------------------------------ C33
\* C33: whenever the join watcher holds the supervisor lock and waits on the
\* completion signals, the cascade watcher has already been through its
\* locked section and has invoked every registered cancel operation.
C33_JoinAfterCascade ==
    (joinPc = "recv" /\ lck = "join") =>
        /\ watcherPc = "done"
        /\ \A k \in 1..Len(cfs) : csDone[cfs[k]]

\* ------------------------------------------------------------------ C34
\* The calls and loops that have borrowed conduit k and not yet returned it.
ConnBorrowers(k) == {c \in Clients : Connecting(c) /\ cCh[c] = k}

ReqBorrowers(k) == {h \in Handlers : hPc[h] # "none" /\ hCh[h] = k}

ResBorrowers(k) == {c \in Clients : InSend(c) /\ cCh[c] = k}

\* C34: every conduit that exists is either held by exactly one borrower or
\* present in its pool exactly once, never both and never twice; so two Send
\* calls never hold the same response conduit.
C34_PoolExclusivity ==
    /\ \A k \in ConnChans :
          k <= connMade => connPool[k] + Cardinality(ConnBorrowers(k)) = 1
    /\ \A k \in ReqChans :
          k <= reqMade => reqPool[k] + Cardinality(ReqBorrowers(k)) = 1
    /\ \A k \in ResChans :
          k <= resMade => resPool[k] + Cardinality(ResBorrowers(k)) = 1

\* ------------------------------------------------------------------ C35
\* The automatic registration of task i is bound to fail: the declaration
\* asks for an identity and its name is in the registry already.
RegistrationFails(i) ==
    /\ hasDS
    /\ (myFuncs[i].RegisterWithDiscoveryService \/ myFuncs[i].Handler # "nil")
    /\ myFuncs[i].Name \in DOMAIN dsm

AlreadyExistsLine(i) == <<"already exists!", i>>

\* C35: a worker whose automatic registration fails leaves its start only by
\* putting its one completion signal and cancelling its own context, with
\* the task body not invoked, no accept loop started and the registry
\* untouched; its next step hands the error to the panic sink (which writes
\* it when a sink is configured) and triggers the group shutdown; and the
\* body is never invoked and no accept loop started afterwards.
C35_RegistrationFailure ==
    /\ [][\A i \in Tasks :
            /\ (wpc[i] = "start" /\ RegistrationFails(i) /\ wpc'[i] # "start") =>
                  /\ wpc'[i] = "exited"
                  /\ outcome'[i] = "unregistered"
                  /\ chBuf[i] = 0 /\ chBuf'[i] = 1
                  /\ csDone'[i]
                  /\ invoked'[i] = 0
                  /\ listening' = listening
                  /\ dsm' = dsm
                  /\ shutdownDone' = shutdownDone
            /\ (outcome[i] = "unregistered" /\ wpc[i] = "exited"
                    /\ wpc'[i] # "exited") =>
                  /\ wpc'[i] = "done"
                  /\ shutdownDone'
                  /\ o.Logger => AlreadyExistsLine(i) \in log']_vars
    /\ [](\A i \in Tasks :
            outcome[i] = "unregistered" =>
                /\ invoked[i] = 0
                /\ i \notin listening
                /\ csDone[i]
                /\ TaskExited(i)
                /\ wpc[i] = "done" =>
                      /\ shutdownDone
                      /\ o.Logger => AlreadyExistsLine(i) \in log)

\* A task with a handler whose name another task's body had registered: its
\* worker has reported the failure to the sink and triggered the shutdown,
\* while the other task's body is still running.
C35_Witness ==
    \E i, j \in Tasks :
        /\ i # j
        /\ outcome[i] = "unregistered"
        /\ wpc[i] = "done"
        /\ myFuncs[i].Handler # "nil"
        /\ invoked[i] = 0
        /\ o.Logger
        /\ AlreadyExistsLine(i) \in log
        /\ shutdownDone
        /\ wpc[j] = "running"
        /\ dsm[myFuncs[i].Name].ch = j

====
